---------------------------- MODULE Spec2Model ----------------------------
(***************************************************************************)
(* issue-flow: the storage layer (internal/storage/db.go), the project     *)
(* manager built on it and the construction / close lifecycle of a store   *)
(* handle, as a state machine.                                             *)
(*                                                                         *)
(* The backing engine is SQLite reached through database/sql.  A store     *)
(* handle (storage.Database) wraps one *sql.DB.  Every handle built by     *)
(* New() opens the same per-user file, so the tables live in one variable, *)
(* disk, shared by all handles; a handle built on the in-memory sentinel   *)
(* path has a database of its own, in mem.  Every entity operation is one  *)
(* statement and is modelled as one atomic action.  The commands of        *)
(* package cmd and the goroutines sharing a handle are processes over      *)
(* these operations.                                                       *)
(***************************************************************************)
EXTENDS Integers, Sequences, FiniteSets, TLC

VARIABLES
    now,      \* the engine's clock, what CURRENT_TIMESTAMP evaluates to
    disk,     \* ~/.issue-flow: the directory, the schema objects, the three tables
    pc,       \* per handle: the position of New() building it
    sqldb,    \* per handle: the state of its *sql.DB
    newRet,   \* per handle: what New() returned to its caller
    last,     \* the most recent call on a handle: its input and what it returned
    written,  \* history: per table and key, the value the latest successful
              \* write stored and when, until a successful delete of the key
    mem,      \* per handle: the private database of a handle opened on ":memory:"
    testDB,   \* package cmd: the injected handle, Nil when none
    cmd,      \* package cmd: the command that is running and its position
    inflight  \* per goroutine: the call it is making on the shared handle

vars == <<now, disk, pc, sqldb, newRet, last, written, mem, testDB, cmd, inflight>>

(***************************************************************************)
(* Bounds of the model.                                                    *)
(***************************************************************************)
\* The clock runs from 1 to MaxClock.
MaxClock == 2
\* The AUTOINCREMENT counter of issue_cache is explored up to MaxSeq.
MaxSeq == 3

Handles == {"h1", "h2"}
Goroutines == {"g1", "g2"}
Nil == "nil"

(***************************************************************************)
(* Errors.  An error is the chain of its messages, outermost first:        *)
(* fmt.Errorf("ctx: %w", err) puts one message in front of err's chain.    *)
(***************************************************************************)
NoErr == <<>>
ErrNoRows == <<"sql: no rows in result set">>
ErrDBClosed == <<"sql: database is closed">>
ErrConstraint == <<"UNIQUE constraint failed">>
ErrForeignKey == <<"FOREIGN KEY constraint failed">>
ErrNoTable == <<"no such table">>
ErrExists == <<"table already exists">>
ErrIO == <<"disk I/O error">>
ErrHome == <<"$HOME is not defined">>
ErrMkdir == <<"mkdir: permission denied">>
ErrBadJSON == <<"invalid character">>

Wrap(msg, err) == <<msg>> \o err

(***************************************************************************)
(* Sequence helpers.                                                       *)
(***************************************************************************)
Range(s) == {s[i] : i \in 1..Len(s)}

IndexOf(s, x) == CHOOSE i \in 1..Len(s) : s[i] = x

\* The value bound to column c by a statement that names the columns cols
\* and passes the arguments args by position.
Bound(cols, args, c) == args[IndexOf(cols, c)]

\* Bytewise comparison of two texts (SQLite's default BINARY collation);
\* a text that is ordered is kept as the sequence of its bytes.
RECURSIVE BytesLeq(_, _)
BytesLeq(a, b) ==
    IF a = <<>> THEN TRUE
    ELSE IF b = <<>> THEN FALSE
    ELSE IF Head(a) < Head(b) THEN TRUE
    ELSE IF Head(a) > Head(b) THEN FALSE
    ELSE BytesLeq(Tail(a), Tail(b))

\* Every arrangement of the finite set S as a sequence without repetition.
Arrangements(S) ==
    {s \in [1..Cardinality(S) -> S] : \A i, j \in 1..Cardinality(S) : i # j => s[i] # s[j]}

SetMax(S) == IF S = {} THEN 0 ELSE CHOOSE x \in S : \A y \in S : y <= x

(***************************************************************************)
(* The schema, as initSchema states it.                                    *)
(***************************************************************************)
\* Variant: the script with a plain CREATE TABLE for the last table.
SchemaScriptPlain ==
    << [kind |-> "table", name |-> "projects",                   ifNotExists |-> TRUE],
       [kind |-> "table", name |-> "worktrees",                  ifNotExists |-> TRUE],
       [kind |-> "index", name |-> "idx_worktrees_project_id",   ifNotExists |-> TRUE],
       [kind |-> "index", name |-> "idx_worktrees_issue_number", ifNotExists |-> TRUE],
       [kind |-> "table", name |-> "issue_cache",                ifNotExists |-> FALSE],
       [kind |-> "index", name |-> "idx_issue_cache_project",    ifNotExists |-> TRUE] >>

\* The statements of the schema script, in order.
SchemaScript ==
    << [kind |-> "table", name |-> "projects",                   ifNotExists |-> TRUE],
       [kind |-> "table", name |-> "worktrees",                  ifNotExists |-> TRUE],
       [kind |-> "index", name |-> "idx_worktrees_project_id",   ifNotExists |-> TRUE],
       [kind |-> "index", name |-> "idx_worktrees_issue_number", ifNotExists |-> TRUE],
       [kind |-> "table", name |-> "issue_cache",                ifNotExists |-> TRUE],
       [kind |-> "index", name |-> "idx_issue_cache_project",    ifNotExists |-> TRUE] >>

SchemaObjects == {SchemaScript[i].name : i \in 1..Len(SchemaScript)}

TableNames == {"projects", "worktrees", "issue_cache"}

ProjectColumns ==
    <<"id", "name", "github_owner", "github_repo", "local_path", "worktree_dir",
      "config", "created_at", "updated_at">>

WorktreeColumns ==
    <<"id", "project_id", "issue_number", "path", "branch", "status", "created_at">>

IssueCacheColumns ==
    <<"id", "project_id", "issue_number", "title", "type", "priority", "status",
      "cached_at">>

Columns(table) ==
    CASE table = "projects" -> ProjectColumns
      [] table = "worktrees" -> WorktreeColumns
      [] table = "issue_cache" -> IssueCacheColumns

\* Variant: a projects table declared without its PRIMARY KEY.
ProjectKeysNone == {}

\* Variant: an issue_cache table declared without UNIQUE(project_id, issue_number).
IssueCacheKeysIdOnly == {{"id"}}

\* PRIMARY KEY and UNIQUE constraints: each a set of columns no two rows agree on.
ProjectKeys == {{"id"}}

\* Variant: a worktrees table declared with UNIQUE(project_id, issue_number).
WorktreeKeysPerIssue == {{"id"}, {"project_id", "issue_number"}}

WorktreeKeys == {{"id"}}

IssueCacheKeys == {{"id"}, {"project_id", "issue_number"}}

UniqueKeys(table) ==
    CASE table = "projects" -> ProjectKeys
      [] table = "worktrees" -> WorktreeKeys
      [] table = "issue_cache" -> IssueCacheKeys

\* FOREIGN KEY (project_id) REFERENCES projects(id), on worktrees and issue_cache.
ForeignKeyTables == {"worktrees", "issue_cache"}

\* Variant: a connection opened with foreign keys turned on.
ForeignKeysOn == TRUE

\* SQLite enforces foreign keys only on a connection that turned them on;
\* sql.Open("sqlite3", dbPath) passes the bare path and turns nothing on.
ForeignKeysEnabled == FALSE

\* Variant: cached_at declared without DEFAULT CURRENT_TIMESTAMP, so that a
\* write leaves the zero time.
DefaultValueNoCachedAt(d, table, c, clock) ==
    CASE c = "cached_at" -> 0
      [] c \in {"created_at", "updated_at"} -> clock
      [] table = "worktrees" /\ c = "status" -> "active"
      [] table = "issue_cache" /\ c = "id" ->
            SetMax({d.seq} \cup {r["id"] : r \in d.issue_cache}) + 1

\* Variant: worktrees.status declared with an empty DEFAULT.
DefaultValueNoStatus(d, table, c, clock) ==
    CASE c \in {"created_at", "updated_at", "cached_at"} -> clock
      [] table = "worktrees" /\ c = "status" -> ""
      [] table = "issue_cache" /\ c = "id" ->
            SetMax({d.seq} \cup {r["id"] : r \in d.issue_cache}) + 1

\* What a column left out of an INSERT gets: its DEFAULT, or the next
\* AUTOINCREMENT value for issue_cache.id.
DefaultValue(d, table, c, clock) ==
    CASE c \in {"created_at", "updated_at", "cached_at"} -> clock
      [] table = "worktrees" /\ c = "status" -> "active"
      [] table = "issue_cache" /\ c = "id" ->
            SetMax({d.seq} \cup {r["id"] : r \in d.issue_cache}) + 1


(***************************************************************************)
(* The engine: what one SQL statement does to the database d.  Each        *)
(* returns the database after the statement and the statement's error.     *)
(***************************************************************************)
RowCount(d) ==
    Cardinality(d.projects) + Cardinality(d.worktrees) + Cardinality(d.issue_cache)

\* The row an INSERT naming cols with arguments args builds.
NewRow(d, table, cols, args, clock) ==
    [c \in Range(Columns(table)) |->
        IF c \in Range(cols) THEN Bound(cols, args, c)
        ELSE DefaultValue(d, table, c, clock)]

\* The rows of the table that collide with row on a PRIMARY KEY or UNIQUE constraint.
Conflicts(d, table, row) ==
    {r \in d[table] : \E k \in UniqueKeys(table) : \A c \in k : r[c] = row[c]}

ForeignKeyBroken(d, table, row) ==
    /\ ForeignKeysEnabled
    /\ table \in ForeignKeyTables
    /\ ~ \E p \in d.projects : p["id"] = row["project_id"]

StoreRow(d, table, row, removed) ==
    [d EXCEPT ![table] = (d[table] \ removed) \cup {row},
              !.seq = IF table = "issue_cache" /\ row["id"] > d.seq
                      THEN row["id"] ELSE d.seq]

\* Variant: every INSERT replacing the row it collides with.
InsertReplacing(d, table, cols, args, orReplace, clock) ==
    LET row == NewRow(d, table, cols, args, clock)
        hit == Conflicts(d, table, row)
    IN  IF table \notin d.objects THEN [d |-> d, err |-> ErrNoTable]
        ELSE IF ForeignKeyBroken(d, table, row) THEN [d |-> d, err |-> ErrForeignKey]
        ELSE [d |-> StoreRow(d, table, row, hit), err |-> NoErr]

\* INSERT INTO table (cols) VALUES (args), or INSERT OR REPLACE with orReplace.
Insert(d, table, cols, args, orReplace, clock) ==
    LET row == NewRow(d, table, cols, args, clock)
        hit == Conflicts(d, table, row)
    IN  IF table \notin d.objects THEN [d |-> d, err |-> ErrNoTable]
        ELSE IF ForeignKeyBroken(d, table, row) THEN [d |-> d, err |-> ErrForeignKey]
        ELSE IF hit # {} /\ ~orReplace THEN [d |-> d, err |-> ErrConstraint]
        ELSE [d |-> StoreRow(d, table, row, hit), err |-> NoErr]

\* Variant: a statement without its WHERE clause.
MatchingAny(d, table, key) == d[table]

\* The rows of table whose columns agree with the key (a function column -> value).
Matching(d, table, key) ==
    {r \in d[table] : \A c \in DOMAIN key : r[c] = key[c]}

\* Variant: a DELETE that removes every row of the table.
DeleteAll(d, table, key) ==
    IF table \notin d.objects THEN [d |-> d, err |-> ErrNoTable]
    ELSE [d |-> [d EXCEPT ![table] = {}], err |-> NoErr]

\* DELETE FROM table WHERE the columns agree with key.
Delete(d, table, key) ==
    LET gone == Matching(d, table, key)
        referenced ==
            /\ ForeignKeysEnabled
            /\ table = "projects"
            /\ \E p \in gone : \E t \in ForeignKeyTables : \E r \in d[t] :
                   r["project_id"] = p["id"]
    IN  IF table \notin d.objects THEN [d |-> d, err |-> ErrNoTable]
        ELSE IF referenced THEN [d |-> d, err |-> ErrForeignKey]
        ELSE [d |-> [d EXCEPT ![table] = d[table] \ gone], err |-> NoErr]

\* CREATE TABLE / CREATE INDEX, with or without IF NOT EXISTS.
Create(d, stmt) ==
    IF stmt.name \in d.objects
    THEN [d |-> d, err |-> IF stmt.ifNotExists THEN NoErr ELSE ErrExists]
    ELSE [d |-> [d EXCEPT !.objects = d.objects \cup {stmt.name}], err |-> NoErr]

\* A script of several statements runs them in order, each committed on its
\* own, and stops at the first that fails; fault is the position of the
\* statement the engine fails on (0: none).
RECURSIVE RunScript(_, _, _, _)
RunScript(d, script, i, fault) ==
    IF i > Len(script) THEN [d |-> d, err |-> NoErr]
    ELSE IF i = fault THEN [d |-> d, err |-> ErrIO]
    ELSE LET r == Create(d, script[i])
         IN  IF r.err # NoErr THEN r ELSE RunScript(r.d, script, i + 1, fault)


(***************************************************************************)
(* The configuration document.  The store keeps it as text; the manager    *)
(* encodes and decodes it with encoding/json.  A text is either no JSON    *)
(* at all or a JSON object, kept as its members: <<>> for a member the     *)
(* object lacks, <<v>> for a member with value v.                          *)
(***************************************************************************)
ConfigKeys ==
    {"issue_types", "pattern", "max_slug_length", "enabled", "auto_launch",
     "context_file", "context_template"}

\* A Go slice: nil, or its elements.
NilSlice == [nil |-> TRUE, elems |-> <<>>]

EmptySlice == [nil |-> FALSE, elems |-> <<>>]

\* The zero value of project.ProjectConfig.
ZeroConfig ==
    [IssueTypes |-> NilSlice, Pattern |-> "", MaxSlugLength |-> 0, Enabled |-> FALSE,
     AutoLaunch |-> FALSE, ContextFile |-> "", ContextTemplate |-> ""]

\* The configuration projectAddCmd gives a new project.
CLIConfig ==
    [IssueTypes |-> NilSlice, Pattern |-> "{prefix}/{issue-number}-{slug}",
     MaxSlugLength |-> 50, Enabled |-> TRUE, AutoLaunch |-> FALSE,
     ContextFile |-> ".opencode-context", ContextTemplate |-> ""]

\* A Go string whose bytes are not valid UTF-8, and the string json.Marshal
\* writes for it: each invalid byte replaced by U+FFFD.
BadUTF8 == "<ff>.ctx"
ReplacedUTF8 == "<U+FFFD>.ctx"

\* encoding/json writes a string coerced to valid UTF-8.
ToValidUTF8(s) == IF s = BadUTF8 THEN ReplacedUTF8 ELSE s

\* json.Marshal of a ProjectConfig: every member is written (no omitempty),
\* a nil slice as null, a string coerced to valid UTF-8.
JSONMarshal(c) ==
    [json |-> TRUE,
     members |->
        [k \in ConfigKeys |->
            CASE k = "issue_types" -> <<c.IssueTypes>>
              [] k = "pattern" -> <<ToValidUTF8(c.Pattern)>>
              [] k = "max_slug_length" -> <<c.MaxSlugLength>>
              [] k = "enabled" -> <<c.Enabled>>
              [] k = "auto_launch" -> <<c.AutoLaunch>>
              [] k = "context_file" -> <<ToValidUTF8(c.ContextFile)>>
              [] k = "context_template" -> <<ToValidUTF8(c.ContextTemplate)>>]]

\* json.Unmarshal into a zero ProjectConfig: a member the object lacks
\* leaves the field at its zero value; a text that is no JSON is an error.
JSONUnmarshal(text) ==
    LET m == text.members
        get(k, zero) == IF m[k] = <<>> THEN zero ELSE m[k][1]
    IN  IF ~text.json THEN [config |-> ZeroConfig, err |-> ErrBadJSON]
        ELSE [config |->
                [IssueTypes |-> get("issue_types", NilSlice),
                 Pattern |-> get("pattern", ""),
                 MaxSlugLength |-> get("max_slug_length", 0),
                 Enabled |-> get("enabled", FALSE),
                 AutoLaunch |-> get("auto_launch", FALSE),
                 ContextFile |-> get("context_file", ""),
                 ContextTemplate |-> get("context_template", "")],
              err |-> NoErr]

\* The text {} .
EmptyObjectText == [json |-> TRUE, members |-> [k \in ConfigKeys |-> <<>>]]

\* A text that is not JSON.
GarbageText == [json |-> FALSE, members |-> [k \in ConfigKeys |-> <<>>]]

\* The text CreateTestProject writes: no context_template member, issue_types [].
TestConfigText ==
    [json |-> TRUE,
     members |->
        [k \in ConfigKeys |->
            CASE k = "issue_types" -> <<EmptySlice>>
              [] k = "pattern" -> <<"{prefix}/{issue-number}-{slug}">>
              [] k = "max_slug_length" -> <<50>>
              [] k = "enabled" -> <<TRUE>>
              [] k = "auto_launch" -> <<FALSE>>
              [] k = "context_file" -> <<".opencode-context">>
              [] k = "context_template" -> <<>>]]

(***************************************************************************)
(* The values the callers pass.  A name is kept as its bytes, since the    *)
(* list orders by it; 65 is "A", 66 is "B".                                *)
(***************************************************************************)
ProjectIDs == {"p1", "p2"}

WorktreeIDs == {"w1", "w2"}

IssueNumbers == {7, 42}

StorageProject(id, name, owner, repo, path, dir, config) ==
    [ID |-> id, Name |-> name, GitHubOwner |-> owner, GitHubRepo |-> repo,
     LocalPath |-> path, WorktreeDir |-> dir, Config |-> config,
     CreatedAt |-> 0, UpdatedAt |-> 0]

\* Two different projects under the identifier p1 and one under p2 whose
\* name equals that of the second.
ProjectInputs ==
    { StorageProject("p1", <<66>>, "o1", "r1", "/src/a", "/wt/a", TestConfigText),
      StorageProject("p1", <<65>>, "o2", "r2", "", "", EmptyObjectText),
      StorageProject("p2", <<65>>, "o1", "r2", "/src/b", "/wt/b", GarbageText) }

StorageWorktree(id, project, issue, path, branch, status) ==
    [ID |-> id, ProjectID |-> project, IssueNumber |-> issue, Path |-> path,
     Branch |-> branch, Status |-> status, CreatedAt |-> 0]

\* Two different worktrees under w1, and w2 on the project and issue of the
\* first, its status left unspecified.
WorktreeInputs ==
    { StorageWorktree("w1", "p1", 42, "/wt/a/42", "feature/42", "active"),
      StorageWorktree("w1", "p2", 7, "/wt/b/7", "fix/7", "done"),
      StorageWorktree("w2", "p1", 42, "/wt/a/42-2", "feature/42-2", "") }

StorageIssueCache(project, issue, title, type, priority, status) ==
    [ID |-> 0, ProjectID |-> project, IssueNumber |-> issue, Title |-> title,
     Type |-> type, Priority |-> priority, Status |-> status, CachedAt |-> 0]

IssueCacheInputs ==
    { StorageIssueCache("p1", 7, "A", "bug", "high", "open"),
      StorageIssueCache("p1", 7, "B", "feature", "low", "closed"),
      StorageIssueCache("p2", 42, "A", "bug", "high", "open") }


(***************************************************************************)
(* State.                                                                  *)
(***************************************************************************)
\* last when no call has returned since the state changed otherwise.
Idle == [op |-> "none", h |-> Nil, arg |-> Nil, err |-> NoErr, val |-> Nil]

Returned(op, h, arg, err, val) ==
    [op |-> op, h |-> h, arg |-> arg, err |-> err, val |-> val]

\* The history after a successful write of val under key at time clock.
Note(w, table, key, val, clock) ==
    [w EXCEPT ![table] =
        {e \in @ : e.key # key} \cup {[key |-> key, val |-> val, at |-> clock]}]

\* The history after a successful delete of the keys.
Forget(w, table, keys) == [w EXCEPT ![table] = {e \in @ : e.key \notin keys}]

EmptyDisk ==
    [dir |-> FALSE, objects |-> {}, projects |-> {}, worktrees |-> {},
     issue_cache |-> {}, seq |-> 0]

\* A handle on a file has no database of its own.
NoMem == [on |-> FALSE, db |-> EmptyDisk, path |-> Nil]

\* No command is running.
NoCmd == [at |-> "idle", name |-> "none", db |-> Nil, arg |-> Nil, own |-> FALSE]

\* The goroutine is making no call.
NoCall == [at |-> "idle", op |-> "none", arg |-> Nil, err |-> NoErr, base |-> EmptyDisk]

Init ==
    /\ now = 1
    /\ disk = EmptyDisk
    /\ mem = [h \in Handles |-> NoMem]
    /\ testDB = Nil
    /\ cmd = NoCmd
    /\ inflight = [g \in Goroutines |-> NoCall]
    /\ pc = [h \in Handles |-> [at |-> "start", err |-> NoErr]]
    /\ sqldb = [h \in Handles |-> "nil"]
    /\ newRet = [h \in Handles |-> [d |-> Nil, err |-> NoErr]]
    /\ last = Idle
    /\ written = [projects |-> {}, worktrees |-> {}, issue_cache |-> {}]

\* The caller of New() got the handle h and may call its methods.
Held(h) == newRet[h].d = h

\* Exec, Query and QueryRow of a closed *sql.DB fail before reaching the engine.
Usable(h) == sqldb[h] = "open"

\* The database the statements of handle h run against.
Store(h) == IF mem[h].on THEN mem[h].db ELSE disk

\* The database of handle h becomes d.
Commit(h, d) ==
    IF mem[h].on
    THEN mem' = [mem EXCEPT ![h].db = d] /\ disk' = disk
    ELSE disk' = d /\ mem' = mem

\* The call is made by a caller of the library: no command of package cmd
\* and no goroutine of a concurrent caller takes a step.
Direct == UNCHANGED <<testDB, cmd, inflight>>

(***************************************************************************)
(* New and Close.                                                          *)
(***************************************************************************)
NewFaults == {"none", "home", "mkdir", "open"}

\* New() up to and including sql.Open; fault is the call that fails.
NewOpen(h, fault) ==
    /\ pc[h].at = "start"
    /\ UNCHANGED <<now, mem, written>>
    /\ CASE fault = "home" ->
              /\ newRet' = [newRet EXCEPT ![h] =
                    [d |-> Nil, err |-> Wrap("failed to get home directory", ErrHome)]]
              /\ pc' = [pc EXCEPT ![h] = [at |-> "done", err |-> NoErr]]
              /\ UNCHANGED <<disk, sqldb>>
         [] fault = "mkdir" ->
              /\ newRet' = [newRet EXCEPT ![h] =
                    [d |-> Nil, err |-> Wrap("failed to create database directory", ErrMkdir)]]
              /\ pc' = [pc EXCEPT ![h] = [at |-> "done", err |-> NoErr]]
              /\ UNCHANGED <<disk, sqldb>>
         [] fault = "open" ->
              /\ newRet' = [newRet EXCEPT ![h] =
                    [d |-> Nil, err |-> Wrap("failed to open database", ErrIO)]]
              /\ pc' = [pc EXCEPT ![h] = [at |-> "done", err |-> NoErr]]
              /\ disk' = [disk EXCEPT !.dir = TRUE]
              /\ UNCHANGED sqldb
         [] fault = "none" ->
              /\ disk' = [disk EXCEPT !.dir = TRUE]
              /\ sqldb' = [sqldb EXCEPT ![h] = "open"]
              /\ pc' = [pc EXCEPT ![h] = [at |-> "init", err |-> NoErr]]
              /\ UNCHANGED newRet
    /\ last' = Returned("NewOpen", h, fault, IF fault = "none" THEN NoErr ELSE newRet'[h].err, Nil)

\* The schema script run against the database d.
initSchema(d, fault) == RunScript(d, SchemaScript, 1, fault)

\* New(): d.initSchema(), and the return of the handle when it succeeds.
NewInitSchema(h, fault) ==
    /\ pc[h].at = "init"
    /\ LET r == initSchema(Store(h), fault)
       IN  /\ Commit(h, r.d)
           /\ IF r.err = NoErr
              THEN /\ pc' = [pc EXCEPT ![h] = [at |-> "done", err |-> NoErr]]
                   /\ newRet' = [newRet EXCEPT ![h] = [d |-> h, err |-> NoErr]]
              ELSE /\ pc' = [pc EXCEPT ![h] = [at |-> "fail", err |-> r.err]]
                   /\ UNCHANGED newRet
           /\ last' = Returned("initSchema", h, fault, r.err, Nil)
    /\ UNCHANGED <<now, sqldb, written>>

\* Variant: New() returning the schema error without db.Close().
NewFailLeaks(h) ==
    /\ pc[h].at = "fail"
    /\ newRet' = [newRet EXCEPT ![h] =
            [d |-> Nil, err |-> Wrap("failed to initialize schema", pc[h].err)]]
    /\ pc' = [pc EXCEPT ![h] = [at |-> "done", err |-> NoErr]]
    /\ last' = Returned("New", h, Nil, newRet'[h].err, Nil)
    /\ UNCHANGED <<now, disk, mem, sqldb, written>>

\* New(): the branch taken when initSchema failed: db.Close(), then the return.
NewFail(h) ==
    /\ pc[h].at = "fail"
    /\ sqldb' = [sqldb EXCEPT ![h] = "closed"]
    /\ newRet' = [newRet EXCEPT ![h] =
            [d |-> Nil, err |-> Wrap("failed to initialize schema", pc[h].err)]]
    /\ pc' = [pc EXCEPT ![h] = [at |-> "done", err |-> NoErr]]
    /\ last' = Returned("New", h, Nil, newRet'[h].err, Nil)
    /\ mem' = [mem EXCEPT ![h] = NoMem]
    /\ UNCHANGED <<now, disk, written>>

\* Variant: a Close() that returns nil and leaves the *sql.DB open.
CloseLeavesOpen(h) ==
    /\ Held(h)
    /\ last' = Returned("Close", h, Nil, NoErr, Nil)
    /\ UNCHANGED <<now, disk, mem, pc, sqldb, newRet, written>>

\* Close(): closing a closed *sql.DB again returns nil.
Close(h) ==
    /\ Held(h)
    /\ sqldb' = [sqldb EXCEPT ![h] = "closed"]
    /\ mem' = [mem EXCEPT ![h] = NoMem]
    /\ last' = Returned("Close", h, Nil, NoErr, Nil)
    /\ UNCHANGED <<now, disk, pc, newRet, written>>

\* The caller drops what New() returned; the name h then stands for the
\* handle of a later New().
Release(h) ==
    /\ pc[h].at = "done"
    /\ sqldb[h] # "open"
    /\ pc' = [pc EXCEPT ![h] = [at |-> "start", err |-> NoErr]]
    /\ sqldb' = [sqldb EXCEPT ![h] = "nil"]
    /\ newRet' = [newRet EXCEPT ![h] = [d |-> Nil, err |-> NoErr]]
    /\ last' = Idle
    /\ UNCHANGED <<now, disk, mem, written>>

\* The reserved path that selects a transient store, and the default file.
MemoryPath == ":memory:"
FilePath == "database.db"
Paths == {MemoryPath, FilePath}

\* Variant: the sentinel taken for the name of a file.
InMemoryNever(path) == FALSE

\* SQLite gives a connection opened on ":memory:" a database of its own,
\* empty, that goes away with the connection.
InMemory(path) == path = MemoryPath

\* NewWithDBPath(path) up to and including sql.Open; initSchema and the
\* failure branch follow as in New().
NewWithDBPathOpen(h, path, fault) ==
    /\ pc[h].at = "start"
    /\ IF fault = "open"
       THEN /\ newRet' = [newRet EXCEPT ![h] =
                  [d |-> Nil, err |-> Wrap("failed to open database", ErrIO)]]
            /\ pc' = [pc EXCEPT ![h] = [at |-> "done", err |-> NoErr]]
            /\ UNCHANGED <<sqldb, mem>>
       ELSE /\ sqldb' = [sqldb EXCEPT ![h] = "open"]
            /\ mem' = [mem EXCEPT ![h] =
                       [on |-> InMemory(path), db |-> EmptyDisk, path |-> path]]
            /\ pc' = [pc EXCEPT ![h] = [at |-> "init", err |-> NoErr]]
            /\ UNCHANGED newRet
    /\ last' = Returned("NewWithDBPathOpen", h, path,
                        IF fault = "open" THEN newRet'[h].err ELSE NoErr, Nil)
    /\ UNCHANGED <<now, disk, written>>

\* Time passes.
Tick ==
    /\ now < MaxClock
    /\ now' = now + 1
    /\ last' = Idle
    /\ UNCHANGED <<disk, mem, pc, sqldb, newRet, written>>

(***************************************************************************)
(* Project store.                                                          *)
(***************************************************************************)
ProjectFields ==
    <<"ID", "Name", "GitHubOwner", "GitHubRepo", "LocalPath", "WorktreeDir",
      "Config", "CreatedAt", "UpdatedAt">>

\* The columns CreateProject's INSERT names.
ProjectInsertColumns ==
    <<"id", "name", "github_owner", "github_repo", "local_path", "worktree_dir", "config">>

\* Variant: the owner and the repository passed in each other's position.
ProjectInsertArgsSwapped(p) ==
    <<p.ID, p.Name, p.GitHubRepo, p.GitHubOwner, p.LocalPath, p.WorktreeDir, p.Config>>

\* The arguments CreateProject passes, by position.
ProjectInsertArgs(p) ==
    <<p.ID, p.Name, p.GitHubOwner, p.GitHubRepo, p.LocalPath, p.WorktreeDir, p.Config>>

\* The columns GetProject and ListProjects select, in order.
ProjectSelectColumns == ProjectColumns

\* row.Scan / rows.Scan into a Project: destination i receives column i.
ScanProject(row) ==
    [f \in Range(ProjectFields) |-> row[ProjectSelectColumns[IndexOf(ProjectFields, f)]]]

CreateProject(h, p) ==
    /\ Held(h)
    /\ LET r == IF Usable(h)
                THEN Insert(Store(h), "projects", ProjectInsertColumns,
                            ProjectInsertArgs(p), FALSE, now)
                ELSE [d |-> Store(h), err |-> ErrDBClosed]
       IN  /\ Commit(h, r.d)
           /\ last' = Returned("CreateProject", h, p, r.err, Nil)
           /\ written' = IF r.err = NoErr THEN Note(written, "projects", p.ID, p, now) ELSE written
    /\ UNCHANGED <<now, pc, sqldb, newRet>>

\* What GetProject can return for the identifier id.
GetProjectResults(h, id) ==
    IF ~Usable(h) THEN {[val |-> Nil, err |-> ErrDBClosed]}
    ELSE IF "projects" \notin Store(h).objects THEN {[val |-> Nil, err |-> ErrNoTable]}
    ELSE IF Matching(Store(h), "projects", [id |-> id]) = {}
         THEN {[val |-> Nil, err |-> ErrNoRows]}
    ELSE {[val |-> ScanProject(r), err |-> NoErr] :
             r \in Matching(Store(h), "projects", [id |-> id])}

GetProject(h, id) ==
    /\ Held(h)
    /\ \E r \in GetProjectResults(h, id) :
           last' = Returned("GetProject", h, id, r.err, r.val)
    /\ UNCHANGED <<now, disk, mem, pc, sqldb, newRet, written>>

\* Variant: the query without ORDER BY name: the rows in any order.
OrderedByNameUnordered(rows) == Arrangements(rows)

\* ORDER BY name: the rows in an order in which no name precedes a smaller one.
OrderedByName(rows) ==
    {s \in Arrangements(rows) :
        \A i \in 1..(Len(s) - 1) : BytesLeq(s[i]["name"], s[i + 1]["name"])}

\* What ListProjects can return.
ListProjectsResults(h) ==
    IF ~Usable(h) THEN {[val |-> <<>>, err |-> ErrDBClosed]}
    ELSE IF "projects" \notin Store(h).objects THEN {[val |-> <<>>, err |-> ErrNoTable]}
    ELSE {[val |-> [i \in 1..Len(s) |-> ScanProject(s[i])], err |-> NoErr] :
             s \in OrderedByName(Store(h).projects)}

ListProjects(h) ==
    /\ Held(h)
    /\ \E r \in ListProjectsResults(h) :
           last' = Returned("ListProjects", h, Nil, r.err, r.val)
    /\ UNCHANGED <<now, disk, mem, pc, sqldb, newRet, written>>

\* Variant: a DeleteProject that reports a key with no row as not found.
DeleteProjectResultStrict(h, id) ==
    IF ~Usable(h) THEN [d |-> Store(h), err |-> ErrDBClosed]
    ELSE IF Matching(Store(h), "projects", [id |-> id]) = {}
         THEN [d |-> Store(h), err |-> ErrNoRows]
    ELSE Delete(Store(h), "projects", [id |-> id])

\* What DeleteProject does to the database, and its error.
DeleteProjectResult(h, id) ==
    IF Usable(h) THEN Delete(Store(h), "projects", [id |-> id])
    ELSE [d |-> Store(h), err |-> ErrDBClosed]

DeleteProject(h, id) ==
    /\ Held(h)
    /\ LET r == DeleteProjectResult(h, id)
       IN  /\ Commit(h, r.d)
           /\ last' = Returned("DeleteProject", h, id, r.err, Nil)
           /\ written' = IF r.err = NoErr THEN Forget(written, "projects", {id}) ELSE written
    /\ UNCHANGED <<now, pc, sqldb, newRet>>


(***************************************************************************)
(* Worktree store.                                                         *)
(***************************************************************************)
WorktreeFields ==
    <<"ID", "ProjectID", "IssueNumber", "Path", "Branch", "Status", "CreatedAt">>

\* The columns CreateWorktree's INSERT names: status is left to its DEFAULT
\* when the caller did not specify one.
WorktreeInsertColumns(w) ==
    IF w.Status = ""
    THEN <<"id", "project_id", "issue_number", "path", "branch">>
    ELSE <<"id", "project_id", "issue_number", "path", "branch", "status">>

WorktreeInsertArgs(w) ==
    IF w.Status = ""
    THEN <<w.ID, w.ProjectID, w.IssueNumber, w.Path, w.Branch>>
    ELSE <<w.ID, w.ProjectID, w.IssueNumber, w.Path, w.Branch, w.Status>>

ScanWorktree(row) ==
    [f \in Range(WorktreeFields) |-> row[WorktreeColumns[IndexOf(WorktreeFields, f)]]]

CreateWorktree(h, w) ==
    /\ Held(h)
    /\ LET r == IF Usable(h)
                THEN Insert(Store(h), "worktrees", WorktreeInsertColumns(w),
                            WorktreeInsertArgs(w), FALSE, now)
                ELSE [d |-> Store(h), err |-> ErrDBClosed]
       IN  /\ Commit(h, r.d)
           /\ last' = Returned("CreateWorktree", h, w, r.err, Nil)
           /\ written' = IF r.err = NoErr THEN Note(written, "worktrees", w.ID, w, now) ELSE written
    /\ UNCHANGED <<now, pc, sqldb, newRet>>

GetWorktreeResults(h, id) ==
    IF ~Usable(h) THEN {[val |-> Nil, err |-> ErrDBClosed]}
    ELSE IF "worktrees" \notin Store(h).objects THEN {[val |-> Nil, err |-> ErrNoTable]}
    ELSE IF Matching(Store(h), "worktrees", [id |-> id]) = {}
         THEN {[val |-> Nil, err |-> ErrNoRows]}
    ELSE {[val |-> ScanWorktree(r), err |-> NoErr] :
             r \in Matching(Store(h), "worktrees", [id |-> id])}

GetWorktree(h, id) ==
    /\ Held(h)
    /\ \E r \in GetWorktreeResults(h, id) :
           last' = Returned("GetWorktree", h, id, r.err, r.val)
    /\ UNCHANGED <<now, disk, mem, pc, sqldb, newRet, written>>

\* ORDER BY created_at: no row precedes one created earlier.
OrderedByCreatedAt(rows) ==
    {s \in Arrangements(rows) :
        \A i \in 1..(Len(s) - 1) : s[i]["created_at"] <= s[i + 1]["created_at"]}

\* What a worktree list can return; key is <<>> for the unscoped list and
\* the owning project for the scoped one.
ListWorktreesResults(h, key) ==
    IF ~Usable(h) THEN {[val |-> <<>>, err |-> ErrDBClosed]}
    ELSE IF "worktrees" \notin Store(h).objects THEN {[val |-> <<>>, err |-> ErrNoTable]}
    ELSE {[val |-> [i \in 1..Len(s) |-> ScanWorktree(s[i])], err |-> NoErr] :
             s \in OrderedByCreatedAt(Matching(Store(h), "worktrees", key))}

ListWorktrees(h) ==
    /\ Held(h)
    /\ \E r \in ListWorktreesResults(h, <<>>) :
           last' = Returned("ListWorktrees", h, Nil, r.err, r.val)
    /\ UNCHANGED <<now, disk, mem, pc, sqldb, newRet, written>>

ListWorktreesByProject(h, project) ==
    /\ Held(h)
    /\ \E r \in ListWorktreesResults(h, [project_id |-> project]) :
           last' = Returned("ListWorktreesByProject", h, project, r.err, r.val)
    /\ UNCHANGED <<now, disk, mem, pc, sqldb, newRet, written>>

DeleteWorktree(h, id) ==
    /\ Held(h)
    /\ LET r == IF Usable(h) THEN Delete(Store(h), "worktrees", [id |-> id])
                ELSE [d |-> Store(h), err |-> ErrDBClosed]
       IN  /\ Commit(h, r.d)
           /\ last' = Returned("DeleteWorktree", h, id, r.err, Nil)
           /\ written' = IF r.err = NoErr THEN Forget(written, "worktrees", {id}) ELSE written
    /\ UNCHANGED <<now, pc, sqldb, newRet>>

(***************************************************************************)
(* IssueCache store.                                                       *)
(***************************************************************************)
IssueCacheFields ==
    <<"ID", "ProjectID", "IssueNumber", "Title", "Type", "Priority", "Status",
      "CachedAt">>

\* The upsert names the caller's columns; id and cached_at take their defaults.
IssueCacheInsertColumns ==
    <<"project_id", "issue_number", "title", "type", "priority", "status">>

IssueCacheInsertArgs(c) ==
    <<c.ProjectID, c.IssueNumber, c.Title, c.Type, c.Priority, c.Status>>

ScanIssueCache(row) ==
    [f \in Range(IssueCacheFields) |-> row[IssueCacheColumns[IndexOf(IssueCacheFields, f)]]]

\* One INSERT OR REPLACE statement.
CacheIssue(h, c) ==
    /\ Held(h)
    /\ LET r == IF Usable(h)
                THEN Insert(Store(h), "issue_cache", IssueCacheInsertColumns,
                            IssueCacheInsertArgs(c), TRUE, now)
                ELSE [d |-> Store(h), err |-> ErrDBClosed]
       IN  /\ Commit(h, r.d)
           /\ last' = Returned("CacheIssue", h, c, r.err, Nil)
           /\ written' = IF r.err = NoErr THEN Note(written, "issue_cache", <<c.ProjectID, c.IssueNumber>>, c, now) ELSE written
    /\ UNCHANGED <<now, pc, sqldb, newRet>>

IssueKey(project, issue) == [project_id |-> project, issue_number |-> issue]

GetIssueCacheResults(h, project, issue) ==
    IF ~Usable(h) THEN {[val |-> Nil, err |-> ErrDBClosed]}
    ELSE IF "issue_cache" \notin Store(h).objects THEN {[val |-> Nil, err |-> ErrNoTable]}
    ELSE IF Matching(Store(h), "issue_cache", IssueKey(project, issue)) = {}
         THEN {[val |-> Nil, err |-> ErrNoRows]}
    ELSE {[val |-> ScanIssueCache(r), err |-> NoErr] :
             r \in Matching(Store(h), "issue_cache", IssueKey(project, issue))}

GetIssueCache(h, project, issue) ==
    /\ Held(h)
    /\ \E r \in GetIssueCacheResults(h, project, issue) :
           last' = Returned("GetIssueCache", h, <<project, issue>>, r.err, r.val)
    /\ UNCHANGED <<now, disk, mem, pc, sqldb, newRet, written>>

\* Variant: the query without ORDER BY issue_number: the rows in any order.
OrderedByIssueNumberUnordered(rows) == Arrangements(rows)

\* ORDER BY issue_number.
OrderedByIssueNumber(rows) ==
    {s \in Arrangements(rows) :
        \A i \in 1..(Len(s) - 1) : s[i]["issue_number"] <= s[i + 1]["issue_number"]}

ListIssueCacheResults(h, project) ==
    IF ~Usable(h) THEN {[val |-> <<>>, err |-> ErrDBClosed]}
    ELSE IF "issue_cache" \notin Store(h).objects THEN {[val |-> <<>>, err |-> ErrNoTable]}
    ELSE {[val |-> [i \in 1..Len(s) |-> ScanIssueCache(s[i])], err |-> NoErr] :
             s \in OrderedByIssueNumber(
                      Matching(Store(h), "issue_cache", [project_id |-> project]))}

ListIssueCache(h, project) ==
    /\ Held(h)
    /\ \E r \in ListIssueCacheResults(h, project) :
           last' = Returned("ListIssueCache", h, project, r.err, r.val)
    /\ UNCHANGED <<now, disk, mem, pc, sqldb, newRet, written>>

\* One DELETE statement for the project's rows.
ClearIssueCache(h, project) ==
    /\ Held(h)
    /\ LET r == IF Usable(h) THEN Delete(Store(h), "issue_cache", [project_id |-> project])
                ELSE [d |-> Store(h), err |-> ErrDBClosed]
       IN  /\ Commit(h, r.d)
           /\ last' = Returned("ClearIssueCache", h, project, r.err, Nil)
           /\ written' = IF r.err = NoErr THEN Forget(written, "issue_cache", {<<project, n>> : n \in IssueNumbers}) ELSE written
    /\ UNCHANGED <<now, pc, sqldb, newRet>>


(***************************************************************************)
(* Project manager (package project), over a store handle.                 *)
(***************************************************************************)
DomainProject(id, name, owner, repo, path, dir, config) ==
    [ID |-> id, Name |-> name, GitHubOwner |-> owner, GitHubRepo |-> repo,
     LocalPath |-> path, WorktreeDir |-> dir, Config |-> config,
     CreatedAt |-> 0, UpdatedAt |-> 0]

\* What projectAddCmd builds from its flags (no --path, no --worktree-dir),
\* and a project with no name.
DomainProjectInputs ==
    { DomainProject("p2", <<66>>, "o3", "r3", "", "", CLIConfig),
      DomainProject("p1", <<>>, "o3", "r3", "/src/c", "/wt/c", ZeroConfig) }

\* Variant: a Manager.Add that checks no field.
RequiredNothing(p) == NoErr

\* The error of Manager.Add's checks of the required fields, NoErr when it has none.
Required(p) ==
    IF p.ID = "" THEN <<"project ID is required">>
    ELSE IF p.Name = <<>> THEN <<"project name is required">>
    ELSE IF p.GitHubOwner = "" THEN <<"GitHub owner is required">>
    ELSE IF p.GitHubRepo = "" THEN <<"GitHub repo is required">>
    ELSE NoErr

\* The storage.Project Manager.Add builds.
ToStorage(p) ==
    StorageProject(p.ID, p.Name, p.GitHubOwner, p.GitHubRepo, p.LocalPath,
                   p.WorktreeDir, JSONMarshal(p.Config))

\* The project.Project Manager.Get and Manager.List build from a stored one.
ToDomain(sp, config) == [sp EXCEPT !.Config = config]

ManagerAdd(h, p) ==
    /\ Held(h)
    /\ LET r == IF Required(p) # NoErr THEN [d |-> Store(h), err |-> Required(p)]
                ELSE IF Usable(h)
                THEN Insert(Store(h), "projects", ProjectInsertColumns,
                            ProjectInsertArgs(ToStorage(p)), FALSE, now)
                ELSE [d |-> Store(h), err |-> ErrDBClosed]
       IN  /\ Commit(h, r.d)
           /\ last' = Returned("ManagerAdd", h, p, r.err, Nil)
           /\ written' = IF r.err = NoErr THEN Note(written, "projects", p.ID, ToStorage(p), now) ELSE written
    /\ UNCHANGED <<now, pc, sqldb, newRet>>

\* Variant: a Manager.Get that puts a message in front of the store's error.
ManagerGetResultWrapped(r) ==
    IF r.err # NoErr THEN [val |-> Nil, err |-> Wrap("failed to get project", r.err)]
    ELSE LET u == JSONUnmarshal(r.val.Config)
         IN  IF u.err # NoErr
             THEN [val |-> Nil, err |-> Wrap("failed to unmarshal config", u.err)]
             ELSE [val |-> ToDomain(r.val, u.config), err |-> NoErr]

\* Variant: a Manager.Get that reports a configuration it cannot decode as
\* a project that is not there.
ManagerGetResultConflated(r) ==
    IF r.err # NoErr THEN [val |-> Nil, err |-> r.err]
    ELSE LET u == JSONUnmarshal(r.val.Config)
         IN  IF u.err # NoErr
             THEN [val |-> Nil, err |-> ErrNoRows]
             ELSE [val |-> ToDomain(r.val, u.config), err |-> NoErr]

\* What Manager.Get makes of one result of GetProject.
ManagerGetResult(r) ==
    IF r.err # NoErr THEN [val |-> Nil, err |-> r.err]
    ELSE LET u == JSONUnmarshal(r.val.Config)
         IN  IF u.err # NoErr
             THEN [val |-> Nil, err |-> Wrap("failed to unmarshal config", u.err)]
             ELSE [val |-> ToDomain(r.val, u.config), err |-> NoErr]

ManagerGet(h, id) ==
    /\ Held(h)
    /\ \E r \in GetProjectResults(h, id) :
           last' = Returned("ManagerGet", h, id, ManagerGetResult(r).err,
                            ManagerGetResult(r).val)
    /\ UNCHANGED <<now, disk, mem, pc, sqldb, newRet, written>>

\* Variant: a Manager.List that leaves out the projects whose configuration
\* it cannot decode.
ManagerListResultSkipping(r) ==
    IF r.err # NoErr THEN [val |-> <<>>, err |-> r.err]
    ELSE LET good == SelectSeq(r.val, LAMBDA sp : JSONUnmarshal(sp.Config).err = NoErr)
         IN  [val |-> [i \in 1..Len(good) |->
                          ToDomain(good[i], JSONUnmarshal(good[i].Config).config)],
              err |-> NoErr]

\* What Manager.List makes of one result of ListProjects.
ManagerListResult(r) ==
    IF r.err # NoErr THEN [val |-> <<>>, err |-> r.err]
    ELSE IF \E i \in 1..Len(r.val) : JSONUnmarshal(r.val[i].Config).err # NoErr
         THEN LET i == CHOOSE j \in 1..Len(r.val) :
                          /\ JSONUnmarshal(r.val[j].Config).err # NoErr
                          /\ \A k \in 1..(j - 1) : JSONUnmarshal(r.val[k].Config).err = NoErr
              IN  [val |-> <<>>,
                   err |-> Wrap("failed to unmarshal config",
                                JSONUnmarshal(r.val[i].Config).err)]
    ELSE [val |-> [i \in 1..Len(r.val) |->
                      ToDomain(r.val[i], JSONUnmarshal(r.val[i].Config).config)],
          err |-> NoErr]

ManagerList(h) ==
    /\ Held(h)
    /\ \E r \in ListProjectsResults(h) :
           last' = Returned("ManagerList", h, Nil, ManagerListResult(r).err,
                            ManagerListResult(r).val)
    /\ UNCHANGED <<now, disk, mem, pc, sqldb, newRet, written>>

ManagerDelete(h, id) ==
    /\ Held(h)
    /\ LET r == DeleteProjectResult(h, id)
       IN  /\ Commit(h, r.d)
           /\ last' = Returned("ManagerDelete", h, id, r.err, Nil)
           /\ written' = IF r.err = NoErr THEN Forget(written, "projects", {id}) ELSE written
    /\ UNCHANGED <<now, pc, sqldb, newRet>>

(***************************************************************************)
(* The project operations when the engine fails under them.  The engine    *)
(* can fail a statement as a whole (Exec, Query, the first step of         *)
(* QueryRow) and, for a query, any later step to the next row; at is where *)
(* it fails and k how many rows it delivered before.                       *)
(***************************************************************************)
FaultOps ==
    {"CreateProjectFault", "GetProjectFault", "ListProjectsFault",
     "DeleteProjectFault", "ManagerListFault"}

\* d.db.Exec fails: CreateProject returns its error.
CreateProjectFault(h, p) ==
    /\ Held(h) /\ Usable(h)
    /\ last' = Returned("CreateProjectFault", h, p, ErrIO, Nil)
    /\ UNCHANGED <<now, disk, mem, pc, sqldb, newRet, written>>

\* The query behind d.db.QueryRow fails: row.Scan returns its error.
GetProjectFault(h, id) ==
    /\ Held(h) /\ Usable(h)
    /\ last' = Returned("GetProjectFault", h, id, ErrIO, Nil)
    /\ UNCHANGED <<now, disk, mem, pc, sqldb, newRet, written>>

\* d.db.Exec fails: DeleteProject returns its error.
DeleteProjectFault(h, id) ==
    /\ Held(h) /\ Usable(h)
    /\ last' = Returned("DeleteProjectFault", h, id, ErrIO, Nil)
    /\ UNCHANGED <<now, disk, mem, pc, sqldb, newRet, written>>

\* What ListProjects returns when the engine fails: d.db.Query returns the
\* error and ListProjects returns it; a failing step to the next row makes
\* rows.Next() return false, which ends the loop as the end of the rows
\* does, and ListProjects returns the rows appended so far and nil:
\* rows.Err() is not called.
ListProjectsFaultResults(h, at, k) ==
    IF at = "query" THEN {[val |-> <<>>, err |-> ErrIO]}
    ELSE {[val |-> [i \in 1..k |-> ScanProject(s[i])], err |-> NoErr] :
             s \in {t \in OrderedByName(Store(h).projects) : k <= Len(t)}}

ListProjectsFault(h, at, k) ==
    /\ Held(h) /\ Usable(h)
    /\ "projects" \in Store(h).objects
    /\ \E r \in ListProjectsFaultResults(h, at, k) :
           last' = Returned("ListProjectsFault", h, [at |-> at, k |-> k], r.err, r.val)
    /\ UNCHANGED <<now, disk, mem, pc, sqldb, newRet, written>>

\* Manager.List over a ListProjects the engine fails under.
ManagerListFault(h, at, k) ==
    /\ Held(h) /\ Usable(h)
    /\ "projects" \in Store(h).objects
    /\ \E r \in ListProjectsFaultResults(h, at, k) :
           last' = Returned("ManagerListFault", h, [at |-> at, k |-> k],
                            ManagerListResult(r).err, ManagerListResult(r).val)
    /\ UNCHANGED <<now, disk, mem, pc, sqldb, newRet, written>>

(***************************************************************************)
(* Goroutines sharing one handle.  A call is made (the goroutine is in the *)
(* method), its one statement runs in the engine, and the goroutines are   *)
(* joined.  inflight[g].base is no state of the code: it keeps the         *)
(* database as it was when g made its call, for the properties.            *)
(***************************************************************************)
Shared == "h1"

ConcurrentProjects == {p \in ProjectInputs : p.ID = "p1"}

\* g enters CreateProject or DeleteProject.
GoCall(g, op, arg) ==
    /\ Held(Shared) /\ Usable(Shared)
    /\ inflight[g].at = "idle"
    /\ inflight' = [inflight EXCEPT ![g] =
            [at |-> "called", op |-> op, arg |-> arg, err |-> NoErr, base |-> Store(Shared)]]
    /\ UNCHANGED <<now, disk, mem, pc, sqldb, newRet, last, written, testDB, cmd>>

\* The statement of g's call runs, and the call returns.
GoExec(g) ==
    /\ inflight[g].at = "called"
    /\ CASE inflight[g].op = "CreateProject" -> CreateProject(Shared, inflight[g].arg)
         [] inflight[g].op = "DeleteProject" -> DeleteProject(Shared, inflight[g].arg)
    /\ inflight' = [inflight EXCEPT ![g].at = "returned", ![g].err = last'.err]
    /\ UNCHANGED <<testDB, cmd>>

\* The caller has waited for the goroutines it started.
GoJoin ==
    /\ \E g \in Goroutines : inflight[g].at = "returned"
    /\ \A g \in Goroutines : inflight[g].at # "called"
    /\ inflight' = [g \in Goroutines |-> NoCall]
    /\ UNCHANGED <<now, disk, mem, pc, sqldb, newRet, last, written, testDB, cmd>>

\* database/sql keeps a pool of connections behind a *sql.DB and opens a
\* further one when a statement finds the idle ones in use, which can
\* happen to g's statement while another goroutine is in its call.  Each
\* connection opened on ":memory:" has a database of its own, empty and
\* without the schema, which New ran on the first connection only.
PoolMayOpen(h, g) ==
    /\ mem[h].on
    /\ \E o \in Goroutines \ {g} : inflight[o].at = "called"

GoWriteOps == {"CreateProject", "DeleteProject"}

GoReadOps == {"GetProject", "ListProjects"}

\* The statement of g's CreateProject or DeleteProject runs on a connection
\* the pool opened for it: the table is not there.
GoExecFresh(g) ==
    /\ inflight[g].at = "called"
    /\ inflight[g].op \in GoWriteOps
    /\ PoolMayOpen(Shared, g)
    /\ last' = Returned(inflight[g].op, Shared, inflight[g].arg, ErrNoTable, Nil)
    /\ inflight' = [inflight EXCEPT ![g].at = "returned", ![g].err = ErrNoTable]
    /\ UNCHANGED <<now, disk, mem, pc, sqldb, newRet, written, testDB, cmd>>

\* What g's GetProject or ListProjects can return: the result on the
\* handle's database or, on a connection the pool opened for it, the error
\* of the missing table.
GoQueryResults(g) ==
    (IF inflight[g].op = "GetProject"
     THEN GetProjectResults(Shared, inflight[g].arg)
     ELSE ListProjectsResults(Shared))
    \cup (IF PoolMayOpen(Shared, g)
          THEN {[val |-> IF inflight[g].op = "GetProject" THEN Nil ELSE <<>>,
                 err |-> ErrNoTable]}
          ELSE {})

\* The query of g's GetProject or ListProjects runs, and the call returns.
GoQuery(g) ==
    /\ inflight[g].at = "called"
    /\ inflight[g].op \in GoReadOps
    /\ \E r \in GoQueryResults(g) :
          /\ last' = Returned(inflight[g].op, Shared, inflight[g].arg, r.err, r.val)
          /\ inflight' = [inflight EXCEPT ![g].at = "returned", ![g].err = r.err]
    /\ UNCHANGED <<now, disk, mem, pc, sqldb, newRet, written, testDB, cmd>>

\* What the statement of the call c does to the database d, run alone.
RunAlone(c, d) ==
    CASE c.op = "CreateProject" ->
            Insert(d, "projects", ProjectInsertColumns, ProjectInsertArgs(c.arg), FALSE, now)
      [] c.op = "DeleteProject" -> Delete(d, "projects", [id |-> c.arg])

(***************************************************************************)
(* Package cmd: the project commands and the handle a test injects.  A     *)
(* command runs getDB, registers the deferred db.Close() when              *)
(* shouldCloseDB says so, calls the manager and returns, or ends the       *)
(* process with os.Exit(1), which runs no deferred call.  cmd.own is no    *)
(* state of the code: it keeps whether getDB built the handle with New().  *)
(***************************************************************************)
\* A test sets testDB to the handle it built.
InjectTestDB(h) ==
    /\ cmd.at = "idle"
    /\ testDB = Nil
    /\ Held(h) /\ Usable(h)
    /\ testDB' = h
    /\ UNCHANGED <<now, disk, mem, pc, sqldb, newRet, last, written, cmd, inflight>>

\* The test's cleanup sets testDB back to nil.
ClearTestDB ==
    /\ cmd.at = "idle"
    /\ testDB # Nil
    /\ testDB' = Nil
    /\ UNCHANGED <<now, disk, mem, pc, sqldb, newRet, last, written, cmd, inflight>>

\* The flags of "project add": two complete sets and one without --name.
FlagInputs ==
    { [id |-> "p1", name |-> <<66>>, owner |-> "o3", repo |-> "r3", path |-> "", dir |-> ""],
      [id |-> "p2", name |-> <<65>>, owner |-> "o3", repo |-> "r3", path |-> "/src/c", dir |-> ""],
      [id |-> "p2", name |-> <<>>, owner |-> "o3", repo |-> "r3", path |-> "", dir |-> ""] }

FlagsMissing(f) == f.id = "" \/ f.name = <<>> \/ f.owner = "" \/ f.repo = ""

\* The project "project add" builds from its flags.
ProjectFromFlags(f) ==
    DomainProject(f.id, f.name, f.owner, f.repo, f.path, f.dir, CLIConfig)

\* Variant: a shouldCloseDB that says yes for every handle.
shouldCloseDBAlways(db) == TRUE

shouldCloseDB(db) == db # testDB

\* The command starts and calls getDB(): the injected handle when there is
\* one, else New(), whose steps follow on a handle not in use.
CmdGetDB(name, arg) ==
    /\ cmd.at = "idle"
    /\ IF testDB # Nil
       THEN cmd' = [at |-> "run", name |-> name, db |-> testDB, arg |-> arg, own |-> FALSE]
       ELSE \E h \in Handles :
               /\ pc[h].at = "start"
               /\ cmd' = [at |-> "new", name |-> name, db |-> h, arg |-> arg, own |-> TRUE]
    /\ UNCHANGED <<now, disk, mem, pc, sqldb, newRet, last, written, testDB, inflight>>

\* New() has returned to the command: os.Exit(1) on an error.
CmdNewReturned ==
    /\ cmd.at = "new"
    /\ pc[cmd.db].at = "done"
    /\ cmd' = [cmd EXCEPT !.at = IF newRet[cmd.db].err # NoErr THEN "exited" ELSE "run"]
    /\ UNCHANGED <<now, disk, mem, pc, sqldb, newRet, last, written, testDB, inflight>>

\* projectAddCmd after getDB: the check of the flags, then manager.Add.
CmdAdd ==
    /\ cmd.at = "run" /\ cmd.name = "add"
    /\ IF FlagsMissing(cmd.arg)
       THEN /\ cmd' = [cmd EXCEPT !.at = "exited"]
            /\ UNCHANGED <<now, disk, mem, pc, sqldb, newRet, last, written>>
       ELSE /\ ManagerAdd(cmd.db, ProjectFromFlags(cmd.arg))
            /\ cmd' = [cmd EXCEPT !.at = IF last'.err # NoErr THEN "exited" ELSE "return"]
    /\ UNCHANGED <<testDB, inflight>>

\* projectListCmd after getDB: manager.List.
CmdList ==
    /\ cmd.at = "run" /\ cmd.name = "list"
    /\ ManagerList(cmd.db)
    /\ cmd' = [cmd EXCEPT !.at = IF last'.err # NoErr THEN "exited" ELSE "return"]
    /\ UNCHANGED <<testDB, inflight>>

\* projectShowCmd after getDB: manager.Get.
CmdShow ==
    /\ cmd.at = "run" /\ cmd.name = "show"
    /\ ManagerGet(cmd.db, cmd.arg)
    /\ cmd' = [cmd EXCEPT !.at = IF last'.err # NoErr THEN "exited" ELSE "return"]
    /\ UNCHANGED <<testDB, inflight>>

\* The command's Run returns: the deferred db.Close() runs if it was registered.
CmdReturn ==
    /\ cmd.at = "return"
    /\ IF shouldCloseDB(cmd.db)
       THEN Close(cmd.db)
       ELSE UNCHANGED <<now, disk, mem, pc, sqldb, newRet, last, written>>
    /\ cmd' = NoCmd
    /\ UNCHANGED <<testDB, inflight>>

(***************************************************************************)
(* The specification: the callers of one file-backed handle, one call at   *)
(* a time.  Statements run without engine faults.  Behaviours are explored *)
(* while the AUTOINCREMENT counter is at most MaxSeq and while at most one *)
(* of the three tables holds rows: no statement of the entity operations   *)
(* reads or writes a table other than its own.                             *)
(***************************************************************************)
OneTable(d) == Cardinality({t \in TableNames : d[t] # {}}) <= 1

Explored == disk'.seq <= MaxSeq /\ OneTable(disk')

Callers == {"h1"}

Next ==
    \/ Tick /\ Direct
    \/ \E h \in Callers : NewOpen(h, "none") /\ Direct
    \/ \E h \in Callers : NewInitSchema(h, 0) /\ Direct
    \/ \E h \in Callers : Close(h) /\ Direct
    \/ \E h \in Callers : Release(h) /\ Direct
    \/ \E h \in Callers, p \in ProjectInputs : CreateProject(h, p) /\ Explored /\ Direct
    \/ \E h \in Callers, id \in ProjectIDs : GetProject(h, id) /\ Direct
    \/ \E h \in Callers : ListProjects(h) /\ Direct
    \/ \E h \in Callers, id \in ProjectIDs : DeleteProject(h, id) /\ Direct
    \/ \E h \in Callers, w \in WorktreeInputs : CreateWorktree(h, w) /\ Explored /\ Direct
    \/ \E h \in Callers, id \in WorktreeIDs : GetWorktree(h, id) /\ Direct
    \/ \E h \in Callers : ListWorktrees(h) /\ Direct
    \/ \E h \in Callers, id \in ProjectIDs : ListWorktreesByProject(h, id) /\ Direct
    \/ \E h \in Callers, id \in WorktreeIDs : DeleteWorktree(h, id) /\ Direct
    \/ \E h \in Callers, c \in IssueCacheInputs : CacheIssue(h, c) /\ Explored /\ Direct
    \/ \E h \in Callers, id \in ProjectIDs, n \in IssueNumbers : GetIssueCache(h, id, n) /\ Direct
    \/ \E h \in Callers, id \in ProjectIDs : ListIssueCache(h, id) /\ Direct
    \/ \E h \in Callers, id \in ProjectIDs : ClearIssueCache(h, id) /\ Direct
    \/ \E h \in Callers, p \in DomainProjectInputs : ManagerAdd(h, p) /\ Explored /\ Direct
    \/ \E h \in Callers, id \in ProjectIDs : ManagerGet(h, id) /\ Direct
    \/ \E h \in Callers : ManagerList(h) /\ Direct
    \/ \E h \in Callers, id \in ProjectIDs : ManagerDelete(h, id) /\ Direct

Spec == Init /\ [][Next]_vars


(***************************************************************************)
(* The specification of construction: two handles built by New() on the    *)
(* same file, each call of New() failing wherever it can fail, closed and  *)
(* dropped in any order, while callers populate the three tables.          *)
(***************************************************************************)
PopulateProjects ==
    {p \in ProjectInputs : p.Config # EmptyObjectText}

PopulateWorktrees == {w \in WorktreeInputs : w.ID = "w2"}

PopulateIssues == {c \in IssueCacheInputs : c.ProjectID = "p2"}

NextNew ==
    \/ \E h \in Handles, f \in NewFaults : NewOpen(h, f) /\ Direct
    \/ \E h \in Handles, f \in 0..Len(SchemaScript) : NewInitSchema(h, f) /\ Direct
    \/ \E h \in Handles : NewFail(h) /\ Direct
    \/ \E h \in Handles : Close(h) /\ Direct
    \/ \E h \in Handles : Release(h) /\ Direct
    \/ \E h \in Handles, p \in PopulateProjects : CreateProject(h, p) /\ Direct
    \/ \E h \in Handles, w \in PopulateWorktrees : CreateWorktree(h, w) /\ Direct
    \/ \E h \in Handles, c \in PopulateIssues : CacheIssue(h, c) /\ disk'.seq <= MaxSeq /\ Direct

SpecNew == Init /\ [][NextNew]_vars

(***************************************************************************)
(* The specification of the three tables together: one handle on the file, *)
(* projects, worktrees and cached issues created and deleted in any order, *)
(* at one time of the clock.                                               *)
(***************************************************************************)
NextRefs ==
    \/ \E h \in Callers : NewOpen(h, "none") /\ Direct
    \/ \E h \in Callers : NewInitSchema(h, 0) /\ Direct
    \/ \E h \in Callers, p \in PopulateProjects : CreateProject(h, p) /\ Direct
    \/ \E h \in Callers, id \in ProjectIDs : DeleteProject(h, id) /\ Direct
    \/ \E h \in Callers, id \in ProjectIDs : ManagerDelete(h, id) /\ Direct
    \/ \E h \in Callers, w \in WorktreeInputs : CreateWorktree(h, w) /\ Direct
    \/ \E h \in Callers, id \in WorktreeIDs : DeleteWorktree(h, id) /\ Direct
    \/ \E h \in Callers, c \in IssueCacheInputs : CacheIssue(h, c) /\ disk'.seq <= MaxSeq /\ Direct
    \/ \E h \in Callers, id \in ProjectIDs : ClearIssueCache(h, id) /\ Direct

SpecRefs == Init /\ [][NextRefs]_vars

(***************************************************************************)
(* The specification of engine failures: one handle on the file, projects  *)
(* created and deleted, and every project operation also run with the      *)
(* engine failing under it.                                                *)
(***************************************************************************)
FaultPlaces == {"query", "next"}

NextFault ==
    \/ Tick /\ Direct
    \/ \E h \in Callers : NewOpen(h, "none") /\ Direct
    \/ \E h \in Callers : NewInitSchema(h, 0) /\ Direct
    \/ \E h \in Callers, p \in ProjectInputs : CreateProject(h, p) /\ Direct
    \/ \E h \in Callers, id \in ProjectIDs : DeleteProject(h, id) /\ Direct
    \/ \E h \in Callers : ListProjects(h) /\ Direct
    \/ \E h \in Callers, p \in ProjectInputs : CreateProjectFault(h, p) /\ Direct
    \/ \E h \in Callers, id \in ProjectIDs : GetProjectFault(h, id) /\ Direct
    \/ \E h \in Callers, id \in ProjectIDs : DeleteProjectFault(h, id) /\ Direct
    \/ \E h \in Callers, at \in FaultPlaces, k \in 0..Cardinality(ProjectIDs) :
          ListProjectsFault(h, at, k) /\ Direct
    \/ \E h \in Callers, at \in FaultPlaces, k \in 0..Cardinality(ProjectIDs) :
          ManagerListFault(h, at, k) /\ Direct

SpecFault == Init /\ [][NextFault]_vars

(***************************************************************************)
(* The specification of concurrent callers: two goroutines creating and    *)
(* deleting the project p1 on one handle on the file.                      *)
(***************************************************************************)
NextConc ==
    \/ NewOpen(Shared, "none") /\ Direct
    \/ NewInitSchema(Shared, 0) /\ Direct
    \/ \E g \in Goroutines, p \in ConcurrentProjects : GoCall(g, "CreateProject", p)
    \/ \E g \in Goroutines : GoCall(g, "DeleteProject", "p1")
    \/ \E g \in Goroutines : GoExec(g)
    \/ GoJoin

SpecConc == Init /\ [][NextConc]_vars

(***************************************************************************)
(* The specification of the commands: a test builds an in-memory handle,   *)
(* injects it or not, runs the project commands one after the other,       *)
(* reads the handle back, and cleans up.  Without an injected handle a     *)
(* command builds its own with New(), failing wherever New() can fail.     *)
(* One thread: a command runs from getDB to its return or its exit with    *)
(* nothing else in between.                                                *)
(***************************************************************************)
TestHandles == {"h1"}

Settled == \A h \in Handles : pc[h].at \in {"start", "done"}

BetweenCommands == cmd.at = "idle" /\ Settled

Building(h) == cmd.at = "new" /\ h = cmd.db

CommandInputs ==
    {<<"add", f>> : f \in FlagInputs} \cup {<<"list", Nil>>}
        \cup {<<"show", id>> : id \in ProjectIDs}

NextCLI ==
    \/ \E h \in TestHandles :
          BetweenCommands /\ NewWithDBPathOpen(h, MemoryPath, "none") /\ Direct
    \/ \E h \in TestHandles : cmd.at = "idle" /\ NewInitSchema(h, 0) /\ Direct
    \/ \E h \in Handles : BetweenCommands /\ InjectTestDB(h)
    \/ BetweenCommands /\ ClearTestDB
    \/ \E h \in TestHandles, id \in ProjectIDs :
          BetweenCommands /\ GetProject(h, id) /\ Direct
    \/ \E h \in Handles : BetweenCommands /\ h # testDB /\ Close(h) /\ Direct
    \/ \E h \in Handles : BetweenCommands /\ h # testDB /\ Release(h) /\ Direct
    \/ \E c \in CommandInputs : BetweenCommands /\ CmdGetDB(c[1], c[2])
    \/ \E h \in Handles, f \in NewFaults : Building(h) /\ NewOpen(h, f) /\ Direct
    \/ \E h \in Handles, f \in {0, 1} : Building(h) /\ NewInitSchema(h, f) /\ Direct
    \/ \E h \in Handles : Building(h) /\ NewFail(h) /\ Direct
    \/ CmdNewReturned
    \/ CmdAdd
    \/ CmdList
    \/ CmdShow
    \/ CmdReturn

SpecCLI == Init /\ [][NextCLI]_vars

(***************************************************************************)
(* The specification of the paths: two handles built by NewWithDBPath on   *)
(* the sentinel or on the file, at once or one after the other, written    *)
(* to, read, closed and dropped in any order.                              *)
(***************************************************************************)
MemProjects == {p \in PopulateProjects : p.ID = "p1"}

MemWorktrees == {w \in WorktreeInputs : w.ID = "w1"}

NextMem ==
    \/ \E h \in Handles, path \in Paths, f \in {"none", "open"} :
          NewWithDBPathOpen(h, path, f) /\ Direct
    \/ \E h \in Handles, f \in {0, 1} : NewInitSchema(h, f) /\ Direct
    \/ \E h \in Handles : NewFail(h) /\ Direct
    \/ \E h \in Handles : Close(h) /\ Direct
    \/ \E h \in Handles : Release(h) /\ Direct
    \/ \E h \in Handles, p \in MemProjects : CreateProject(h, p) /\ Direct
    \/ \E h \in Handles, w \in MemWorktrees : CreateWorktree(h, w) /\ Direct
    \/ \E h \in Handles : ListProjects(h) /\ Direct
    \/ \E h \in Handles : ListWorktrees(h) /\ Direct

SpecMem == Init /\ [][NextMem]_vars

(***************************************************************************)
(* The specification of the issue cache: one handle on the file, cache     *)
(* writes for two issues of p1 and one of p2 in any order, overwrites      *)
(* among them, lists and clears, while the AUTOINCREMENT counter is at     *)
(* most MaxSeq.                                                            *)
(***************************************************************************)
CacheInputs ==
    IssueCacheInputs \cup {StorageIssueCache("p1", 42, "C", "feature", "low", "open")}

NextCache ==
    \/ \E h \in Callers : NewOpen(h, "none") /\ Direct
    \/ \E h \in Callers : NewInitSchema(h, 0) /\ Direct
    \/ \E h \in Callers, c \in CacheInputs :
          CacheIssue(h, c) /\ disk'.seq <= MaxSeq /\ Direct
    \/ \E h \in Callers, id \in ProjectIDs, n \in IssueNumbers :
          GetIssueCache(h, id, n) /\ Direct
    \/ \E h \in Callers, id \in ProjectIDs : ListIssueCache(h, id) /\ Direct
    \/ \E h \in Callers, id \in ProjectIDs : ClearIssueCache(h, id) /\ Direct

SpecCache == Init /\ [][NextCache]_vars

(***************************************************************************)
(* The specification of the manager: one handle on the file, open and then *)
(* closed, on which projects are added with each required field missing    *)
(* in turn, with and without the optional ones and with three              *)
(* configurations, got, listed and deleted, next to a row whose            *)
(* configuration text is no JSON, written through the store.               *)
(***************************************************************************)
\* A configuration one of whose strings is not valid UTF-8.
BadStringConfig == [CLIConfig EXCEPT !.ContextFile = BadUTF8]

AddInputs ==
    { DomainProject("p1", <<66>>, "o1", "r1", "", "", CLIConfig),
      DomainProject("p1", <<65>>, "o2", "r2", "/src/a", "/wt/a", ZeroConfig),
      DomainProject("p2", <<65>>, "o1", "r2", "/src/b", "", BadStringConfig),
      DomainProject("", <<66>>, "o1", "r1", "/src/a", "/wt/a", CLIConfig),
      DomainProject("p2", <<>>, "o1", "r1", "/src/a", "/wt/a", CLIConfig),
      DomainProject("p2", <<66>>, "", "r1", "/src/a", "/wt/a", CLIConfig),
      DomainProject("p2", <<66>>, "o1", "", "/src/a", "/wt/a", CLIConfig) }

UndecodableProjects == {p \in ProjectInputs : p.Config = GarbageText}

NextAdd ==
    \/ \E h \in Callers : NewOpen(h, "none") /\ Direct
    \/ \E h \in Callers : NewInitSchema(h, 0) /\ Direct
    \/ \E h \in Callers : Close(h) /\ Direct
    \/ \E h \in Callers, p \in AddInputs : ManagerAdd(h, p) /\ Direct
    \/ \E h \in Callers, p \in UndecodableProjects : CreateProject(h, p) /\ Direct
    \/ \E h \in Callers, id \in ProjectIDs : ManagerGet(h, id) /\ Direct
    \/ \E h \in Callers : ManagerList(h) /\ Direct
    \/ \E h \in Callers, id \in ProjectIDs : ManagerDelete(h, id) /\ Direct

SpecAdd == Init /\ [][NextAdd]_vars

(***************************************************************************)
(* The specification of reads after writes: one handle, on the file or on  *)
(* the sentinel path, and two goroutines that create, delete, get and      *)
(* list projects on it, one after the other or at once.                    *)
(***************************************************************************)
NextReads ==
    \/ NewOpen(Shared, "none") /\ Direct
    \/ NewWithDBPathOpen(Shared, MemoryPath, "none") /\ Direct
    \/ NewInitSchema(Shared, 0) /\ Direct
    \/ \E g \in Goroutines, p \in ConcurrentProjects : GoCall(g, "CreateProject", p)
    \/ \E g \in Goroutines : GoCall(g, "DeleteProject", "p1")
    \/ \E g \in Goroutines : GoCall(g, "GetProject", "p1")
    \/ \E g \in Goroutines : GoCall(g, "ListProjects", Nil)
    \/ \E g \in Goroutines : inflight[g].op \in GoWriteOps /\ GoExec(g)
    \/ \E g \in Goroutines : GoExecFresh(g)
    \/ \E g \in Goroutines : GoQuery(g)
    \/ GoJoin

SpecReads == Init /\ [][NextReads]_vars

(***************************************************************************)
(* The specification of the reads: a test's in-memory handle, written to   *)
(* through the store, read through the store, the manager and the list     *)
(* and show commands, with the handle injected or not, open or closed;     *)
(* without an injected handle the commands run on handles of their own on  *)
(* the file, which "project add" fills.                                    *)
(***************************************************************************)
FrameProjects == {p \in ProjectInputs : p.Config = TestConfigText}

FrameWorktrees == {w \in WorktreeInputs : w.ID = "w2"}

FrameIssues == {c \in IssueCacheInputs : c.Title = "A" /\ c.ProjectID = "p1"}

FrameCommands ==
    {<<"add", f>> : f \in {g \in FlagInputs : g.id = "p1"}}
        \cup {<<"list", Nil>>} \cup {<<"show", id>> : id \in ProjectIDs}

NextFrame ==
    \/ \E h \in TestHandles :
          BetweenCommands /\ NewWithDBPathOpen(h, MemoryPath, "none") /\ Direct
    \/ \E h \in TestHandles : cmd.at = "idle" /\ NewInitSchema(h, 0) /\ Direct
    \/ \E h \in TestHandles : BetweenCommands /\ InjectTestDB(h)
    \/ BetweenCommands /\ ClearTestDB
    \/ \E h \in TestHandles : BetweenCommands /\ h # testDB /\ Close(h) /\ Direct
    \/ \E h \in TestHandles, p \in FrameProjects :
          BetweenCommands /\ CreateProject(h, p) /\ Direct
    \/ \E h \in TestHandles, w \in FrameWorktrees :
          BetweenCommands /\ CreateWorktree(h, w) /\ Direct
    \/ \E h \in TestHandles, c \in FrameIssues :
          BetweenCommands /\ CacheIssue(h, c) /\ mem'[h].db.seq <= 1 /\ Direct
    \/ \E h \in TestHandles, id \in ProjectIDs :
          BetweenCommands /\ DeleteProject(h, id) /\ Direct
    \/ \E h \in TestHandles, id \in ProjectIDs :
          BetweenCommands /\ GetProject(h, id) /\ Direct
    \/ \E h \in TestHandles : BetweenCommands /\ ListProjects(h) /\ Direct
    \/ \E h \in TestHandles, id \in WorktreeIDs :
          BetweenCommands /\ GetWorktree(h, id) /\ Direct
    \/ \E h \in TestHandles : BetweenCommands /\ ListWorktrees(h) /\ Direct
    \/ \E h \in TestHandles, id \in ProjectIDs :
          BetweenCommands /\ ListWorktreesByProject(h, id) /\ Direct
    \/ \E h \in TestHandles, id \in ProjectIDs, n \in IssueNumbers :
          BetweenCommands /\ GetIssueCache(h, id, n) /\ Direct
    \/ \E h \in TestHandles, id \in ProjectIDs :
          BetweenCommands /\ ListIssueCache(h, id) /\ Direct
    \/ \E h \in TestHandles, id \in ProjectIDs :
          BetweenCommands /\ ManagerGet(h, id) /\ Direct
    \/ \E h \in TestHandles : BetweenCommands /\ ManagerList(h) /\ Direct
    \/ \E c \in FrameCommands : BetweenCommands /\ CmdGetDB(c[1], c[2])
    \/ \E h \in Handles : Building(h) /\ NewOpen(h, "none") /\ Direct
    \/ \E h \in Handles : Building(h) /\ NewInitSchema(h, 0) /\ Direct
    \/ \E h \in Handles \ TestHandles : BetweenCommands /\ Release(h) /\ Direct
    \/ CmdNewReturned
    \/ CmdAdd
    \/ CmdList
    \/ CmdShow
    \/ CmdReturn

SpecFrame == Init /\ [][NextFrame]_vars

(***************************************************************************)
(* Properties.                                                             *)
(***************************************************************************)
ProjectWriteOps == {"CreateProject", "ManagerAdd"}

ProjectDeleteOps == {"DeleteProject", "ManagerDelete"}

EntityOps ==
    {"CreateProject", "GetProject", "ListProjects", "DeleteProject",
     "CreateWorktree", "GetWorktree", "ListWorktrees", "ListWorktreesByProject",
     "DeleteWorktree", "CacheIssue", "GetIssueCache", "ListIssueCache",
     "ClearIssueCache", "ManagerAdd", "ManagerGet", "ManagerList", "ManagerDelete"}

HasProject(d, id) == \E r \in d.projects : r["id"] = id

HasWorktree(d, id) == \E r \in d.worktrees : r["id"] = id

HasIssue(d, key) ==
    \E r \in d.issue_cache : r["project_id"] = key[1] /\ r["issue_number"] = key[2]

\* C1: a create of a Project (store or manager) or of a Worktree whose
\* identifier is already stored returns an error, and the three tables are
\* after the call exactly what they were before it: the stored row keeps
\* every field and no row is added or changed.
C1_DuplicateCreateFails ==
    [][ /\ (last'.op \in ProjectWriteOps /\ HasProject(disk, last'.arg.ID))
              => (last'.err # NoErr /\ disk' = disk)
        /\ (last'.op = "CreateWorktree" /\ HasWorktree(disk, last'.arg.ID))
              => (last'.err # NoErr /\ disk' = disk) ]_vars

\* C1 witness: CreateProject was refused with a constraint error for an
\* identifier whose stored row differs from the rejected value.
C1_Witness ==
    /\ last.op = "CreateProject"
    /\ last.err = ErrConstraint
    /\ \E r \in disk.projects :
           r["id"] = last.arg.ID /\ r["github_owner"] # last.arg.GitHubOwner

SameProject(got, put) ==
    /\ got.ID = put.ID
    /\ got.Name = put.Name
    /\ got.GitHubOwner = put.GitHubOwner
    /\ got.GitHubRepo = put.GitHubRepo
    /\ got.LocalPath = put.LocalPath
    /\ got.WorktreeDir = put.WorktreeDir
    /\ got.Config = put.Config

SameWorktree(got, put) ==
    /\ got.ID = put.ID
    /\ got.ProjectID = put.ProjectID
    /\ got.IssueNumber = put.IssueNumber
    /\ got.Path = put.Path
    /\ got.Branch = put.Branch
    /\ put.Status # "" => got.Status = put.Status

SameIssue(got, put) ==
    /\ got.ProjectID = put.ProjectID
    /\ got.IssueNumber = put.IssueNumber
    /\ got.Title = put.Title
    /\ got.Type = put.Type
    /\ got.Priority = put.Priority
    /\ got.Status = put.Status

\* C2: round trip.  A Get on an open handle for a key whose latest successful
\* write has not been deleted since returns no error, every field the caller
\* supplied to that write, and timestamps that are not the zero time.
C2_RoundTrip ==
    /\ (last.op = "GetProject" /\ Usable(last.h)
            /\ \E e \in written.projects : e.key = last.arg)
          => /\ last.err = NoErr
             /\ \A e \in written.projects : e.key = last.arg => SameProject(last.val, e.val)
             /\ last.val.CreatedAt # 0 /\ last.val.UpdatedAt # 0
    /\ (last.op = "GetWorktree" /\ Usable(last.h)
            /\ \E e \in written.worktrees : e.key = last.arg)
          => /\ last.err = NoErr
             /\ \A e \in written.worktrees : e.key = last.arg => SameWorktree(last.val, e.val)
             /\ last.val.CreatedAt # 0
    /\ (last.op = "GetIssueCache" /\ Usable(last.h)
            /\ \E e \in written.issue_cache : e.key = last.arg)
          => /\ last.err = NoErr
             /\ \A e \in written.issue_cache : e.key = last.arg => SameIssue(last.val, e.val)
             /\ last.val.CachedAt # 0

\* C2 witness: GetProject returned the project written with the test
\* configuration text, after the clock had advanced.
C2_Witness ==
    /\ last.op = "GetProject"
    /\ last.err = NoErr
    /\ last.val.Config = TestConfigText
    /\ last.val.CreatedAt = MaxClock

\* C3: issue_cache never holds two rows with the same project identifier
\* and issue number.
C3_OneRowPerIssue ==
    \A r1, r2 \in disk.issue_cache :
        (r1["project_id"] = r2["project_id"] /\ r1["issue_number"] = r2["issue_number"])
            => r1 = r2

\* C3 witness: a cache write for a pair has just replaced an earlier row of
\* the same pair (the row carries a later AUTOINCREMENT id and is alone).
C3_Witness ==
    /\ last.op = "CacheIssue"
    /\ last.err = NoErr
    /\ last.arg.Title = "B"
    /\ Cardinality(disk.issue_cache) = 1
    /\ \E r \in disk.issue_cache : r["title"] = "B" /\ r["id"] = 2 /\ disk.seq = 2

\* C4: a cache write on an open handle returns no error whether or not the
\* pair has a row, and a Get for a pair returns the title, type, priority and
\* status of the most recent write for that pair and the time of that write
\* as cached-at.
C4_LastWriteWins ==
    /\ (last.op = "CacheIssue" /\ Usable(last.h)) => last.err = NoErr
    /\ (last.op = "GetIssueCache" /\ Usable(last.h))
          => \A e \in written.issue_cache :
                 e.key = last.arg =>
                    /\ last.err = NoErr
                    /\ last.val.Title = e.val.Title
                    /\ last.val.Type = e.val.Type
                    /\ last.val.Priority = e.val.Priority
                    /\ last.val.Status = e.val.Status
                    /\ last.val.CachedAt = e.at

\* C4 witness: a Get returned the second write for a pair, made at a later
\* time than the first.
C4_Witness ==
    /\ last.op = "GetIssueCache"
    /\ last.err = NoErr
    /\ last.val.ID > 1
    /\ last.val.CachedAt > 1
    /\ last.val.Title = "B"

\* C5: a Get on an open handle for a key that has no row returns the
\* not-found error (sql.ErrNoRows itself, no message in front of it) and no
\* entity; Manager.Get returns that same error.
C5_NotFound ==
    /\ (last.op \in {"GetProject", "ManagerGet"} /\ Usable(last.h)
            /\ ~HasProject(disk, last.arg))
          => (last.err = ErrNoRows /\ last.val = Nil)
    /\ (last.op = "GetWorktree" /\ Usable(last.h) /\ ~HasWorktree(disk, last.arg))
          => (last.err = ErrNoRows /\ last.val = Nil)
    /\ (last.op = "GetIssueCache" /\ Usable(last.h) /\ ~HasIssue(disk, last.arg))
          => (last.err = ErrNoRows /\ last.val = Nil)

\* C5 witness: Manager.Get missed an identifier while another project is stored.
C5_Witness ==
    /\ last.op = "ManagerGet"
    /\ last.err = ErrNoRows
    /\ disk.projects # {}

\* C6: a delete of a Project (store or manager) or of a Worktree on an open
\* handle returns no error, leaves no row with the identifier, and when the
\* call before it was the same delete it leaves the tables as they were.
C6_DeleteIdempotent ==
    [][ /\ (last'.op \in ProjectDeleteOps /\ Usable(last'.h))
              => /\ last'.err = NoErr
                 /\ ~HasProject(disk', last'.arg)
                 /\ (last.op \in ProjectDeleteOps /\ last.arg = last'.arg
                        /\ last.err = NoErr) => disk' = disk
        /\ (last'.op = "DeleteWorktree" /\ Usable(last'.h))
              => /\ last'.err = NoErr
                 /\ ~HasWorktree(disk', last'.arg)
                 /\ (last.op = "DeleteWorktree" /\ last.arg = last'.arg
                        /\ last.err = NoErr) => disk' = disk ]_vars

\* C6 witness: DeleteProject returned no error for an identifier that no
\* write had stored (or that was deleted before), another project remaining.
C6_Witness ==
    /\ last.op = "DeleteProject"
    /\ last.err = NoErr
    /\ Usable(last.h)
    /\ disk.projects # {}
    /\ written.projects # {}


C8_ClosedHandleFails ==
    [][ /\ last'.op = "Close" => sqldb'[last'.h] = "closed"
        /\ \A h \in Handles : sqldb[h] = "closed" => sqldb'[h] # "open"
        /\ (last'.op \in EntityOps /\ sqldb[last'.h] = "closed")
              => (last'.err # NoErr /\ disk' = disk) ]_vars

\* C8 witness: DeleteProject on a closed handle returned the closed-database
\* error and the project it named is still stored.
C8_Witness ==
    /\ last.op = "DeleteProject"
    /\ last.err = ErrDBClosed
    /\ HasProject(disk, last.arg)


\* C9: whenever New() has returned an error it has returned no handle and
\* the *sql.DB it opened, if any, is closed; when the error is that of the
\* schema initialization the *sql.DB is closed; whenever New() has returned
\* a handle it has returned no error and every object of the schema exists.
C9_NoHandleOnFailure ==
    \A h \in Handles :
        /\ newRet[h].err # NoErr => (newRet[h].d = Nil /\ sqldb[h] # "open")
        /\ (newRet[h].err # NoErr /\ Head(newRet[h].err) = "failed to initialize schema")
              => sqldb[h] = "closed"
        /\ newRet[h].d # Nil => (newRet[h].err = NoErr /\ SchemaObjects \subseteq disk.objects)

\* C9 witness: New() returned the schema error after the engine failed in
\* the middle of the script, leaving part of the schema on the file.
C9_Witness ==
    \E h \in Handles :
        /\ newRet[h].err = Wrap("failed to initialize schema", ErrIO)
        /\ sqldb[h] = "closed"
        /\ "projects" \in disk.objects
        /\ "issue_cache" \notin disk.objects

\* C10: the schema script run with no engine fault returns no error and
\* New() returns the handle, whatever part of the schema the file already
\* holds; and no step of New() or Close() adds, drops or changes a row.
C10_SchemaIdempotent ==
    [][ /\ (last'.op = "initSchema" /\ last'.arg = 0)
              => (last'.err = NoErr /\ newRet'[last'.h].d = last'.h)
        /\ last'.op \in {"NewOpen", "initSchema", "New", "Close"}
              => /\ disk'.projects = disk.projects
                 /\ disk'.worktrees = disk.worktrees
                 /\ disk'.issue_cache = disk.issue_cache
                 /\ disk'.seq = disk.seq ]_vars

\* C10 witness: New() has just returned a second handle on a file whose
\* three tables hold rows, the first handle still open.
C10_Witness ==
    /\ last.op = "initSchema"
    /\ last.err = NoErr
    /\ \A h \in Handles : Held(h) /\ Usable(h)
    /\ disk.projects # {} /\ disk.worktrees # {} /\ disk.issue_cache # {}


\* C11: a worktree list scoped to a project on an open handle returns no
\* error and, each exactly once, the worktrees whose owning project is that
\* project and no other, no element before one created earlier.
C11_ScopedListing ==
    (last.op = "ListWorktreesByProject" /\ Usable(last.h))
        => /\ last.err = NoErr
           /\ Len(last.val) =
                 Cardinality({r \in disk.worktrees : r["project_id"] = last.arg})
           /\ \A r \in disk.worktrees :
                 r["project_id"] = last.arg
                    => \E i \in 1..Len(last.val) : last.val[i].ID = r["id"]
           /\ \A i \in 1..Len(last.val) : last.val[i].ProjectID = last.arg
           /\ \A i \in 1..(Len(last.val) - 1) :
                 last.val[i].CreatedAt <= last.val[i + 1].CreatedAt

\* C11 witness: the list scoped to p1 returned its one worktree while a
\* worktree of p2 is stored.
C11_Witness ==
    /\ last.op = "ListWorktreesByProject"
    /\ last.arg = "p1"
    /\ last.err = NoErr
    /\ Len(last.val) = 1
    /\ \E r \in disk.worktrees : r["project_id"] = "p2"

C15_ProjectImmutable ==
    [][ /\ \A r1, r2 \in disk'.projects : r1["id"] = r2["id"] => r1 = r2
        /\ \A r \in disk.projects : \A r2 \in disk'.projects :
              r["id"] = r2["id"] => r = r2 ]_vars

\* C15 witness: Manager.Add of p2 failed on the row CreateProject stored
\* earlier, which is as it was stored.
C15_Witness ==
    /\ last.op = "ManagerAdd"
    /\ last.arg.ID = "p2"
    /\ last.err = ErrConstraint
    /\ \E r \in disk.projects :
          r["id"] = "p2" /\ r["github_owner"] = "o1" /\ r["created_at"] < now


\* C13: DeleteProject and Manager.Delete on an open handle return no error
\* whatever refers to the project, remove the projects row of that
\* identifier and no other, and leave the worktrees and issue_cache tables
\* as they were.
C13_NoCascade ==
    [][ (last'.op \in ProjectDeleteOps /\ Usable(last'.h))
            => /\ last'.err = NoErr
               /\ disk'.projects = {r \in disk.projects : r["id"] # last'.arg}
               /\ disk'.worktrees = disk.worktrees
               /\ disk'.issue_cache = disk.issue_cache
               /\ disk'.seq = disk.seq ]_vars

\* C13 witness: DeleteProject("p1") returned nil and p1 has no row, while a
\* worktree and a cached issue of p1 are stored.
C13_Witness ==
    /\ last.op = "DeleteProject"
    /\ last.arg = "p1"
    /\ last.err = NoErr
    /\ ~HasProject(disk, "p1")
    /\ \E e \in written.projects : e.key = "p2"
    /\ \E r \in disk.worktrees : r["project_id"] = "p1"
    /\ \E r \in disk.issue_cache : r["project_id"] = "p1"

\* C14: every worktree row's project_id is the id of a projects row.
C14_OwningProjectExists ==
    \A w \in disk.worktrees : \E p \in disk.projects : p["id"] = w["project_id"]

\* C20: ClearIssueCache on an open handle returns no error, removes the
\* issue_cache rows of the project and no other row, leaves projects and
\* worktrees as they were, and changes nothing when the project has no
\* cached row.
C20_ClearIssueCache ==
    [][ (last'.op = "ClearIssueCache" /\ Usable(last'.h))
            => /\ last'.err = NoErr
               /\ disk'.issue_cache =
                     {r \in disk.issue_cache : r["project_id"] # last'.arg}
               /\ disk'.projects = disk.projects
               /\ disk'.worktrees = disk.worktrees
               /\ (~ \E r \in disk.issue_cache : r["project_id"] = last'.arg)
                     => disk' = disk ]_vars

\* C20 witness: after ClearIssueCache("p1") the row of p2, the first ever
\* written, is the only one left of the two that were written, and projects
\* and worktrees hold rows.
C20_Witness ==
    /\ last.op = "ClearIssueCache"
    /\ last.arg = "p1"
    /\ last.err = NoErr
    /\ disk.seq = 2
    /\ Cardinality(disk.issue_cache) = 1
    /\ \E r \in disk.issue_cache : r["project_id"] = "p2" /\ r["id"] = 1
    /\ disk.projects # {}
    /\ disk.worktrees # {}


\* C16: an operation the engine failed under has returned an error.
C16_NoSuppressedFailure ==
    last.op \in FaultOps => last.err # NoErr


\* C17: when the goroutines have returned, the database and the errors they
\* got are those of their statements run one after the other in some order,
\* from the database as it was when the first of that order made its call;
\* and of two creates of one identifier made while it had no row, exactly
\* one returned nil and the identifier has exactly one row.
C17_AtomicStatements ==
    (\A g \in Goroutines : inflight[g].at = "returned")
        => /\ \E a, b \in Goroutines :
                 /\ a # b
                 /\ LET ra == RunAlone(inflight[a], inflight[a].base)
                        rb == RunAlone(inflight[b], ra.d)
                    IN  /\ ra.err = inflight[a].err
                        /\ rb.err = inflight[b].err
                        /\ rb.d = disk
           /\ \A a, b \in Goroutines :
                 (/\ a # b
                  /\ inflight[a].op = "CreateProject"
                  /\ inflight[b].op = "CreateProject"
                  /\ inflight[a].arg.ID = inflight[b].arg.ID
                  /\ ~HasProject(inflight[a].base, inflight[a].arg.ID)
                  /\ ~HasProject(inflight[b].base, inflight[b].arg.ID))
                    => /\ (inflight[a].err = NoErr) # (inflight[b].err = NoErr)
                       /\ Cardinality({r \in disk.projects :
                                          r["id"] = inflight[a].arg.ID}) = 1

\* C17 witness: two creates of p1 with different contents, both made while
\* p1 had no row, have returned: g1's failed on the constraint and the row
\* is g2's.
C17_Witness ==
    /\ inflight["g1"].at = "returned" /\ inflight["g2"].at = "returned"
    /\ inflight["g1"].op = "CreateProject" /\ inflight["g2"].op = "CreateProject"
    /\ inflight["g1"].arg # inflight["g2"].arg
    /\ ~HasProject(inflight["g1"].base, "p1") /\ ~HasProject(inflight["g2"].base, "p1")
    /\ inflight["g1"].err = ErrConstraint
    /\ inflight["g2"].err = NoErr
    /\ \E r \in disk.projects : r["github_owner"] = inflight["g2"].arg.GitHubOwner


\* The state part of C18.
InjectedHandleServes ==
    testDB # Nil =>
        /\ sqldb[testDB] = "open"
        /\ cmd.at \in {"run", "return", "exited"} => (cmd.db = testDB /\ ~cmd.own)
        /\ (cmd.at = "return" /\ cmd.name = "add") =>
               \E r \in Store(testDB).projects :
                   /\ r["id"] = cmd.arg.id
                   /\ r["name"] = cmd.arg.name
                   /\ r["local_path"] = cmd.arg.path

\* C18: while a test's handle is injected, every command works on that
\* handle and leaves it open, and a project a command added is a row of the
\* injected handle's store; a step of a command closes a handle only if
\* the command built that handle itself with New().
C18_InjectedHandleStaysOpen ==
    [][ /\ InjectedHandleServes'
        /\ \A h \in Handles :
              (cmd.at # "idle" /\ sqldb[h] = "open" /\ sqldb'[h] # "open")
                  => (cmd.own /\ h = cmd.db /\ h # testDB) ]_vars

\* C18 witness: with a handle injected, "project add" has run manager.Add
\* with success and is about to return, after an earlier command already
\* returned on the same injected handle.
C18_Witness ==
    /\ testDB # Nil
    /\ cmd.at = "return"
    /\ cmd.name = "add"
    /\ last.op = "ManagerAdd"
    /\ Cardinality(Store(testDB).projects) = 2



\* C19: a construction on the sentinel path that returns a handle returns
\* one whose store has no project and no worktree, whatever was written
\* to sentinel stores before and whether or not they are still open; a
\* call on a sentinel handle changes neither the file nor the store of
\* another handle; and once a sentinel handle is closed its store is gone.
C19_TransientStore ==
    [][ \A h \in Handles :
          /\ ( /\ last'.op = "initSchema" /\ last'.h = h /\ last'.err = NoErr
               /\ mem'[h].path = MemoryPath )
                => (Store(h)'.projects = {} /\ Store(h)'.worktrees = {})
          /\ (mem[h].path = MemoryPath /\ last'.h = h /\ last'.op # "none")
                => /\ disk' = disk
                   /\ \A g \in Handles \ {h} :
                         mem[g].path = MemoryPath => mem'[g] = mem[g]
          /\ (mem[h].path = MemoryPath /\ sqldb'[h] # "open")
                => mem'[h] = NoMem ]_vars

\* C19 witness: NewWithDBPath(":memory:") has just returned a handle, after
\* a project and a worktree were written to the other handle's sentinel
\* store, which is closed by now; the file holds neither.
C19_Witness ==
    /\ last.op = "initSchema"
    /\ last.err = NoErr
    /\ mem[last.h].path = MemoryPath
    /\ written.projects # {}
    /\ written.worktrees # {}
    /\ disk.projects = {}
    /\ disk.worktrees = {}
    /\ \A g \in Handles \ {last.h} : sqldb[g] = "closed"

\* C21: a successful list of the issue cache of a project returns one
\* element for each issue of the project that was cached and not cleared
\* since, carrying the values of the last write, no element of another
\* project, and the elements in strictly ascending issue number.
C21_IssueCacheListing ==
    (last.op = "ListIssueCache" /\ last.err = NoErr) =>
        LET mine == {e \in written.issue_cache : e.key[1] = last.arg}
        IN  /\ Len(last.val) = Cardinality(mine)
            /\ \A i \in 1..Len(last.val) :
                   /\ last.val[i].ProjectID = last.arg
                   /\ \E e \in mine :
                         /\ e.key[2] = last.val[i].IssueNumber
                         /\ e.val.Title = last.val[i].Title
                         /\ e.val.Status = last.val[i].Status
            /\ \A i \in 1..(Len(last.val) - 1) :
                   last.val[i].IssueNumber < last.val[i + 1].IssueNumber

\* C21 witness: the list of p1 returned issues 7 and 42 in that order, the
\* row of 7 written after the row of 42, while p2 has a cached issue too.
C21_Witness ==
    /\ last.op = "ListIssueCache"
    /\ last.err = NoErr
    /\ Len(last.val) = 2
    /\ last.val[1].ID > last.val[2].ID
    /\ \E r \in disk.issue_cache : r["project_id"] # last.arg

\* C22: on an open store with the schema, creating a worktree whose
\* identifier is not stored succeeds whatever project and issue number the
\* stored worktrees have, adds the row and keeps every stored row.
C22_NoIssueUniqueness ==
    [][ ( /\ last'.op = "CreateWorktree"
          /\ Usable(last'.h)
          /\ "worktrees" \in disk.objects
          /\ ~HasWorktree(disk, last'.arg.ID) )
            => /\ last'.err = NoErr
               /\ disk.worktrees \subseteq disk'.worktrees
               /\ Cardinality(disk'.worktrees) = Cardinality(disk.worktrees) + 1
               /\ \E r \in disk'.worktrees :
                      /\ r["id"] = last'.arg.ID
                      /\ r["project_id"] = last'.arg.ProjectID
                      /\ r["issue_number"] = last'.arg.IssueNumber ]_vars

\* C22 witness: CreateWorktree returned nil and the table holds two
\* worktrees of different identifiers for issue 42 of project p1.
C22_Witness ==
    /\ last.op = "CreateWorktree"
    /\ last.err = NoErr
    /\ \E r1, r2 \in disk.worktrees :
           /\ r1["id"] # r2["id"]
           /\ r1["project_id"] = r2["project_id"]
           /\ r1["issue_number"] = r2["issue_number"]

MissingRequired(p) ==
    p.ID = "" \/ p.Name = <<>> \/ p.GitHubOwner = "" \/ p.GitHubRepo = ""

StoreErrors == {ErrDBClosed, ErrConstraint, ErrNoTable, ErrForeignKey, ErrIO}

\* C24: Manager.Add of a project with an empty ID, Name, GitHubOwner or
\* GitHubRepo returns an error that is none of the store's, also on a
\* closed handle, and leaves the store as it was; with the four non-empty
\* its result is that of one CreateProject, whatever LocalPath and
\* WorktreeDir are: one row more on an open store without the identifier,
\* the constraint error and no change with it, the closed-handle error and
\* no change on a closed handle.
C24_AddRequiredFields ==
    [][ last'.op = "ManagerAdd" =>
          LET p == last'.arg
              open == Usable(last'.h)
          IN  IF MissingRequired(p)
              THEN /\ last'.err # NoErr
                   /\ last'.err \notin StoreErrors
                   /\ disk' = disk
                   /\ written' = written
              ELSE /\ (open /\ ~HasProject(disk, p.ID))
                        => /\ last'.err = NoErr
                           /\ disk.projects \subseteq disk'.projects
                           /\ Cardinality(disk'.projects) = Cardinality(disk.projects) + 1
                           /\ \E r \in disk'.projects :
                                  /\ r["id"] = p.ID
                                  /\ r["local_path"] = p.LocalPath
                                  /\ r["worktree_dir"] = p.WorktreeDir
                   /\ (open /\ HasProject(disk, p.ID))
                        => (last'.err = ErrConstraint /\ disk' = disk)
                   /\ ~open => (last'.err = ErrDBClosed /\ disk' = disk) ]_vars

\* C24 witness: Manager.Add has rejected a project without a GitHub repo
\* on a closed handle, after a project with no LocalPath and no WorktreeDir
\* was added.
C24_Witness ==
    /\ last.op = "ManagerAdd"
    /\ last.arg.GitHubRepo = ""
    /\ last.err = <<"GitHub repo is required">>
    /\ ~Usable(last.h)
    /\ \E r \in disk.projects : r["local_path"] = "" /\ r["worktree_dir"] = ""

\* The project of AddInputs whose latest successful Manager.Add is the
\* entry e of the history.
AddedAs(e) == {p \in AddInputs : e.val = ToStorage(p)}

SameDomainProject(got, p) ==
    /\ got.ID = p.ID
    /\ got.Name = p.Name
    /\ got.GitHubOwner = p.GitHubOwner
    /\ got.GitHubRepo = p.GitHubRepo
    /\ got.LocalPath = p.LocalPath
    /\ got.WorktreeDir = p.WorktreeDir
    /\ got.Config = p.Config

\* C25: after a successful Manager.Add(p), a successful Manager.Get(p.ID)
\* returns a project equal to p in ID, Name, GitHubOwner, GitHubRepo,
\* LocalPath, WorktreeDir and Config, a successful Manager.List has such an
\* element, and the config column of the row is the text that was written.
C25_DomainRoundTrip ==
    /\ (last.op = "ManagerGet" /\ last.err = NoErr)
          => \A e \in written.projects : \A p \in AddedAs(e) :
                 e.key = last.arg => SameDomainProject(last.val, p)
    /\ (last.op = "ManagerList" /\ last.err = NoErr)
          => \A e \in written.projects : \A p \in AddedAs(e) :
                 \E i \in 1..Len(last.val) : SameDomainProject(last.val[i], p)
    /\ \A e \in written.projects :
           \E r \in disk.projects : r["id"] = e.key /\ r["config"] = e.val.Config

Undecodable(d) == {r \in d.projects : JSONUnmarshal(r["config"]).err # NoErr}

ErrorIs(err, target) ==
    /\ Len(err) >= Len(target)
    /\ SubSeq(err, Len(err) - Len(target) + 1, Len(err)) = target

\* C27: on an open store Manager.Get of an identifier with no row returns
\* the store's not-found error as it is and no project; of a row whose
\* configuration cannot be decoded it returns no project and an error that
\* starts with "failed to unmarshal config" and neither is nor wraps the
\* not-found error; and it returns nil exactly when the row is there and
\* its configuration decodes.
C27_ErrorKinds ==
    (last.op = "ManagerGet" /\ Usable(last.h) /\ "projects" \in disk.objects) =>
        LET row == {r \in disk.projects : r["id"] = last.arg}
        IN  /\ row = {} => (last.err = ErrNoRows /\ last.val = Nil)
            /\ (row # {} /\ row \subseteq Undecodable(disk))
                  => /\ last.val = Nil
                     /\ last.err # NoErr
                     /\ Head(last.err) = "failed to unmarshal config"
                     /\ ~ErrorIs(last.err, ErrNoRows)
            /\ last.err = NoErr <=> (row # {} /\ row \cap Undecodable(disk) = {})

\* C27 witness: Manager.Get returned the marshaling error for p2, whose
\* row is stored with a configuration that is no JSON, while p1 has no row.
C27_Witness ==
    /\ last.op = "ManagerGet"
    /\ last.arg = "p2"
    /\ last.err = Wrap("failed to unmarshal config", ErrBadJSON)
    /\ HasProject(disk, "p2")
    /\ ~HasProject(disk, "p1")

\* C28: a command that built its own handle with New() has closed it when
\* it finishes, by returning or by exiting with status 1.
C28_OwnHandleClosed ==
    [][ (cmd.at # "idle" /\ cmd.own /\ cmd'.at \in {"idle", "exited"})
            => sqldb'[cmd.db] # "open" ]_vars

ReadOps ==
    {"GetProject", "ListProjects", "GetWorktree", "ListWorktrees",
     "ListWorktreesByProject", "GetIssueCache", "ListIssueCache",
     "ManagerGet", "ManagerList"}

\* The rows of the three tables of the database d.
Rows(d) == <<d.projects, d.worktrees, d.issue_cache>>

\* C30: a step in which a Get or a List of the store or of the manager
\* returns, with or without an error, leaves the rows of every database
\* and the state of every handle as they were; so does every step of a
\* list or show command, but for the handle the command built for itself;
\* and a DeleteProject removes the projects rows of its identifier and
\* changes no other row of any table.
C30_ReadsHaveNoEffect ==
    [][ /\ last'.op \in ReadOps
              => /\ Rows(disk') = Rows(disk)
                 /\ \A h \in Handles : Rows(mem'[h].db) = Rows(mem[h].db)
                 /\ sqldb' = sqldb /\ pc' = pc /\ newRet' = newRet
        /\ (cmd.name \in {"list", "show"} \/ cmd'.name \in {"list", "show"})
              => /\ Rows(disk') = Rows(disk)
                 /\ \A h \in Handles : Rows(mem'[h].db) = Rows(mem[h].db)
                 /\ \A h \in Handles :
                        (sqldb'[h] # sqldb[h] \/ newRet'[h] # newRet[h])
                            => (h \in {cmd.db, cmd'.db} /\ h # testDB
                                /\ (cmd.own \/ cmd'.own))
        /\ last'.op \in ProjectDeleteOps
              => /\ disk' = disk
                 /\ \A h \in Handles :
                        /\ mem'[h].db.projects \subseteq mem[h].db.projects
                        /\ \A r \in mem[h].db.projects :
                               r["id"] # last'.arg => r \in mem'[h].db.projects
                        /\ mem'[h].db.worktrees = mem[h].db.worktrees
                        /\ mem'[h].db.issue_cache = mem[h].db.issue_cache ]_vars

\* C30 witness: "project list" is about to return on the injected handle,
\* whose store holds a project, a worktree and a cached issue, after
\* manager.List returned the project.
C30_Witness ==
    /\ testDB # Nil
    /\ cmd.at = "return"
    /\ cmd.name = "list"
    /\ last.op = "ManagerList"
    /\ Len(last.val) = 1
    /\ Store(testDB).worktrees # {}
    /\ Store(testDB).issue_cache # {}

=============================================================================
